---- MODULE Spec2Model ----
(***************************************************************************)
(* State-machine model of the grid engine (src/src/game-core/engine.ts):   *)
(* cursor, swap, match scan, clear, settle, queue sanitisation, automatic  *)
(* rise and the win/loss flags.  Rows are indexed 0..Height-1 from the top *)
(* and columns 0..Width-1 from the left, as in the source.                 *)
(*                                                                         *)
(* Cosmetic particle state and the optional contact mask are left out:     *)
(* neither is read by any authoritative computation.                       *)
(* Fall-piece positions are kept in thousandths of a row, so that the      *)
(* fractional positions of the source stay integers.                       *)
(***************************************************************************)
EXTENDS Integers, Sequences, FiniteSets, TLC

\* ---------------------------------------------------------------- sizes
\* new Engine(Width, Height, NumColors)
Width == 3
Height == 4
NumColors == 3
\* this.cellSize
cellSize == 64
\* default of this.scrollSpeedPxPerSec
DefaultScrollSpeed == 24
\* this.fallSpeedRowsPerSec, and the same times cascadeFallSpeedMultiplier (0.6),
\* both in thousandths of a row per second
fallSpeedRowsPerSec == 18000
cascadeFallSpeed == 10800
\* clear windows set by swap() and by a cascade
SwapClearMs == 230
CascadeClearMs == 200
\* base of the rise pause added by a clear
baseMs == 1000
\* cell height hard-coded in the settle-time win check
WinCheckCellPx == 48

\* ---------------------------------------------------------------- bounds
\* longest level of the rising-only specification
MaxRows == 3
\* update() is not taken once this many rows have entered the grid
MaxRowsInserted == 6
\* swap() is not called where it would exchange cells more often than this
MaxSwaps == 1
MaxChainDepth == 8
MaxLevels == 3

EMPTY == -1
Cols == 0 .. (Width - 1)
Rows == 0 .. (Height - 1)
Colors == 0 .. (NumColors - 1)

Max(a, b) == IF a >= b THEN a ELSE b
Min(a, b) == IF a <= b THEN a ELSE b

\* x | 0 on an integer argument: the value wrapped into the signed 32-bit range.
\* Every integer of the model lies in that range, where the wrap leaves the
\* value as it is.
ToInt32(x) == x

emptyRow == [x \in Cols |-> EMPTY]
emptyGrid == [y \in Rows |-> emptyRow]
blankMask == [y \in Rows |-> [x \in Cols |-> FALSE]]

\* ---------------------------------------------------------------- match scan
\* One pass of the run walk over a line of n cells (a row or a column):
\* the loop "for (x = 1; x <= n; x++)" with its runStart; the result is the set
\* of indices the pass marks.
\* the run walk with the threshold "len > 3"
RECURSIVE scanLine_longerThan3(_, _, _, _, _)
scanLine_longerThan3(line, n, x, runStart, marks) ==
  IF x > n THEN marks
  ELSE LET prev == line[x - 1]
           same == x < n /\ prev >= 0 /\ line[x] >= 0 /\ prev = line[x]
       IN  IF same
           THEN scanLine_longerThan3(line, n, x + 1, runStart, marks)
           ELSE scanLine_longerThan3(line, n, x + 1, x,
                         IF line[x - 1] >= 0 /\ x - runStart > 3
                         THEN marks \cup (runStart .. (x - 1))
                         ELSE marks)

RECURSIVE scanLine(_, _, _, _, _)
scanLine(line, n, x, runStart, marks) ==
  IF x > n THEN marks
  ELSE LET prev == line[x - 1]
           same == x < n /\ prev >= 0 /\ line[x] >= 0 /\ prev = line[x]
       IN  IF same
           THEN scanLine(line, n, x + 1, runStart, marks)
           ELSE scanLine(line, n, x + 1, x,
                         IF line[x - 1] >= 0 /\ x - runStart >= 3
                         THEN marks \cup (runStart .. (x - 1))
                         ELSE marks)

rowMarks(g, y) == scanLine(g[y], Width, 1, 0, {})
colMarks(g, x) == scanLine([y \in Rows |-> g[y][x]], Height, 1, 0, {})

\* scanForMatches(): the rebuilt mask and the returned flag
scanForMatches(g) ==
  LET horizontal == [y \in Rows |-> rowMarks(g, y)]
      vertical == [x \in Cols |-> colMarks(g, x)]
  IN  [mask  |-> [y \in Rows |-> [x \in Cols |->
                    x \in horizontal[y] \/ y \in vertical[x]]],
       found |-> (\E y \in Rows : horizontal[y] # {})
                 \/ (\E x \in Cols : vertical[x] # {})]

\* ---------------------------------------------------------------- sanitiser
\* pickAlt: the lowest colour not in the forbidden set, 0 when all are forbidden
pickAlt(forbidden) ==
  IF \E c \in Colors : c \notin forbidden
  THEN CHOOSE c \in Colors : c \notin forbidden /\ \A d \in 0 .. (c - 1) : d \in forbidden
  ELSE 0

\* first pass of sanitizeRow: horizontal triples, left to right
RECURSIVE fixHorizontal(_, _, _)
fixHorizontal(out, gridContext, x) ==
  IF x >= Width THEN out
  ELSE IF out[x] < 0 THEN fixHorizontal(out, gridContext, x + 1)
  ELSE IF x >= 2 /\ out[x] = out[x - 1] /\ out[x - 1] = out[x - 2]
  THEN LET top1 == gridContext[Height - 1][x]
           top2 == gridContext[Height - 2][x]
           forbidden == {out[x - 1]}
                        \cup (IF top1 >= 0 /\ top1 = top2 THEN {top1} ELSE {})
       IN  fixHorizontal([out EXCEPT ![x] = pickAlt(forbidden)], gridContext, x + 1)
  ELSE fixHorizontal(out, gridContext, x + 1)

\* second pass of sanitizeRow: vertical triples with the two bottom rows of the
\* context (out[x - 2] is undefined at x = 1, where the comparison is false)
RECURSIVE fixVertical(_, _, _)
fixVertical(out, gridContext, x) ==
  IF x >= Width THEN out
  ELSE IF out[x] < 0 THEN fixVertical(out, gridContext, x + 1)
  ELSE LET top1 == gridContext[Height - 1][x]
           top2 == gridContext[Height - 2][x]
       IN  IF top1 >= 0 /\ top2 >= 0 /\ top1 = top2 /\ out[x] = top1
           THEN LET forbidden ==
                      {top1}
                      \cup (IF x >= 2 /\ out[x - 1] >= 0 /\ out[x - 1] = out[x - 2]
                            THEN {out[x - 1]} ELSE {})
                IN  fixVertical([out EXCEPT ![x] = pickAlt(forbidden)],
                                gridContext, x + 1)
           ELSE fixVertical(out, gridContext, x + 1)

\* sanitizeRow without its second pass
sanitizeRow_firstPassOnly(row, gridContext) ==
  fixHorizontal(row, gridContext, 0)

sanitizeRow(row, gridContext) ==
  fixVertical(fixHorizontal(row, gridContext, 0), gridContext, 0)

\* a raw row (a sequence of any length) cut or padded to Width cells
normalizeRow(r) == [i \in Cols |-> IF i + 1 <= Len(r) THEN r[i + 1] ELSE EMPTY]

\* the sanitising loop of setLevelQueue over the simulated grid
RECURSIVE sanitizeQueue(_, _)
sanitizeQueue(rows, simulatedGrid) ==
  IF rows = << >> THEN << >>
  ELSE LET sanitized == sanitizeRow(normalizeRow(Head(rows)), simulatedGrid)
           shifted == [y \in Rows |->
                         IF y < Height - 1 THEN simulatedGrid[y + 1] ELSE sanitized]
       IN  <<sanitized>> \o sanitizeQueue(Tail(rows), shifted)

\* the placing loop filling the grid from the top row down
RECURSIVE placeRows_fromTop(_, _, _, _, _)
placeRows_fromTop(temp, queue, y, placed, want) ==
  IF y >= 0 /\ placed < want /\ Len(queue) > 0
  THEN placeRows_fromTop([temp EXCEPT ![Height - 1 - y] = Head(queue)], Tail(queue),
                         y - 1, placed + 1, want)
  ELSE [grid |-> temp, levelQueue |-> queue, rowsInserted |-> placed]

\* the placing loop of setLevelQueue: bottom-up, at most `want` rows
RECURSIVE placeRows(_, _, _, _, _)
placeRows(temp, queue, y, placed, want) ==
  IF y >= 0 /\ placed < want /\ Len(queue) > 0
  THEN placeRows([temp EXCEPT ![y] = Head(queue)], Tail(queue), y - 1, placed + 1, want)
  ELSE [grid |-> temp, levelQueue |-> queue, rowsInserted |-> placed]

setLevelQueue(s, rows, visibleCount) ==
  LET want == Max(0, ToInt32(visibleCount))
      sanitizedQueue == sanitizeQueue(rows, s.grid)
      p == placeRows(emptyGrid, sanitizedQueue, Height - 1, 0, want)
  IN  [s EXCEPT !.levelQueue = p.levelQueue,
                !.grid = p.grid,
                !.rowsInserted = p.rowsInserted]

\* shiftNextRow that takes the last row of the queue (pop for shift)
shiftNextRow_pop(queue) ==
  IF Len(queue) > 0
  THEN [row |-> queue[Len(queue)], levelQueue |-> SubSeq(queue, 1, Len(queue) - 1)]
  ELSE [row |-> emptyRow, levelQueue |-> queue]

\* shiftNextRow
shiftNextRow(queue) ==
  IF Len(queue) > 0
  THEN [row |-> Head(queue), levelQueue |-> Tail(queue)]
  ELSE [row |-> emptyRow, levelQueue |-> queue]

\* getState().nextRowPreview: a copy of the front row of the queue, or an
\* empty row when the queue is empty
nextRowPreview(s) == IF Len(s.levelQueue) > 0 THEN s.levelQueue[1] ELSE emptyRow

\* ---------------------------------------------------------------- starting lines
\* The do/while of setStartingLines for one cell: colour c ends the loop unless
\* it repeats the two cells to its left, or repeats the two cells below it
\* while fewer than ten tries have been made (tenth == the tenth try or later).
acceptsColor(g, x, y, c, tenth) ==
  ~ ( (x >= 2 /\ c = g[y][x - 1] /\ c = g[y][x - 2])
      \/ (y <= Height - 3 /\ c = g[y + 1][x] /\ c = g[y + 2][x] /\ ~tenth) )

\* all grids the fill can produce from cell (x, y) on, down to row lastY
RECURSIVE fillFrom(_, _, _, _)
fillFrom(g, x, y, lastY) ==
  IF y < lastY THEN {g}
  ELSE IF x >= Width THEN fillFrom(g, 0, y - 1, lastY)
  ELSE UNION { fillFrom([g EXCEPT ![y][x] = c], x + 1, y, lastY) :
               c \in {d \in Colors : \E tenth \in BOOLEAN : acceptsColor(g, x, y, d, tenth)} }

setStartingLines(g, n) ==
  LET rows == Max(0, Min(n, Height))
  IN  fillFrom(g, 0, Height - 1, Height - rows)

\* ---------------------------------------------------------------- clear and settle
\* applyClearAndCount
clearLineY == Height \div 2

\* applyClearAndCount that takes only rows strictly below clearLineY as below the line
applyClearAndCount_strictlyBelow(s) ==
  LET marked == {c \in Rows \X Cols : s.matchMask[c[1]][c[2]]}
  IN  [grid |-> [y \in Rows |-> [x \in Cols |->
                   IF s.matchMask[y][x] THEN EMPTY ELSE s.grid[y][x]]],
       tilesCleared |-> Cardinality(marked),
       clearedBelowLine |-> \E c \in marked : c[1] > clearLineY]

applyClearAndCount(s) ==
  LET marked == {c \in Rows \X Cols : s.matchMask[c[1]][c[2]]}
  IN  [grid |-> [y \in Rows |-> [x \in Cols |->
                   IF s.matchMask[y][x] THEN EMPTY ELSE s.grid[y][x]]],
       tilesCleared |-> Cardinality(marked),
       clearedBelowLine |-> \E c \in marked : c[1] >= clearLineY]

\* the occupied rows of column x, top to bottom (col of startSettlingAnimation)
RECURSIVE occupied(_, _, _)
occupied(g, x, y) ==
  IF y >= Height THEN << >>
  ELSE (IF g[y][x] >= 0 THEN <<y>> ELSE << >>) \o occupied(g, x, y + 1)

\* the inner loop of startSettlingAnimation without the test fromY !== writeY:
\* a piece for every tile, moved or not
RECURSIVE settleColumn_pieceForEveryTile(_, _, _, _, _, _)
settleColumn_pieceForEveryTile(g, x, col, i, writeY, speed) ==
  IF i < 1 THEN [grid |-> g, pieces |-> << >>]
  ELSE LET fromY == col[i]
           rest == settleColumn_pieceForEveryTile([g EXCEPT ![fromY][x] = EMPTY],
                                                  x, col, i - 1, writeY - 1, speed)
       IN  [grid |-> rest.grid,
            pieces |-> << [x |-> x, fromY |-> fromY, toY |-> writeY,
                           y |-> fromY * 1000, color |-> g[fromY][x],
                           speedRowsPerSec |-> speed] >> \o rest.pieces]

\* the inner loop of startSettlingAnimation for one column: i runs from the last
\* occupied cell up, writeY from the bottom row up
RECURSIVE settleColumn(_, _, _, _, _, _)
settleColumn(g, x, col, i, writeY, speed) ==
  IF i < 1 THEN [grid |-> g, pieces |-> << >>]
  ELSE LET fromY == col[i]
           rest == settleColumn(IF fromY # writeY
                                THEN [g EXCEPT ![fromY][x] = EMPTY] ELSE g,
                                x, col, i - 1, writeY - 1, speed)
       IN  IF fromY # writeY
           THEN [grid |-> rest.grid,
                 pieces |-> << [x |-> x, fromY |-> fromY, toY |-> writeY,
                                y |-> fromY * 1000, color |-> g[fromY][x],
                                speedRowsPerSec |-> speed] >> \o rest.pieces]
           ELSE rest

RECURSIVE settleColumns(_, _, _)
settleColumns(g, x, speed) ==
  IF x >= Width THEN [grid |-> g, pieces |-> << >>]
  ELSE LET col == occupied(g, x, 0)
           one == settleColumn(g, x, col, Len(col), Height - 1, speed)
           rest == settleColumns(one.grid, x + 1, speed)
       IN  [grid |-> rest.grid, pieces |-> one.pieces \o rest.pieces]

startSettlingAnimation(s) ==
  LET speed == IF s.phase = "clearing" THEN cascadeFallSpeed ELSE fallSpeedRowsPerSec
      r == settleColumns(s.grid, 0, speed)
  IN  [s EXCEPT !.grid = r.grid, !.fallPieces = r.pieces, !.phase = "settling"]

\* ---------------------------------------------------------------- level progression
\* levels.findIndex((l) => l.id === currentId): the 0-based index of the first
\* level with that id from position i on, or -1
RECURSIVE findIndex(_, _, _)
findIndex(levels, currentId, i) ==
  IF i > Len(levels) THEN -1
  ELSE IF levels[i] = currentId THEN i - 1
  ELSE findIndex(levels, currentId, i + 1)

\* getNextLevelId without the wrap: the last level is followed by itself
getNextLevelId_noWrap(levels, currentId) ==
  LET idx == findIndex(levels, currentId, 1)
  IN  IF idx = -1 THEN (IF Len(levels) > 0 THEN levels[1] ELSE "")
      ELSE levels[Min(idx + 1, Len(levels) - 1) + 1]

getNextLevelId(levels, currentId) ==
  LET idx == findIndex(levels, currentId, 1)
  IN  IF idx = -1 THEN (IF Len(levels) > 0 THEN levels[1] ELSE "")
      ELSE levels[((idx + 1) % Len(levels)) + 1]

\* ---------------------------------------------------------------- state
VARIABLES
  grid, cursorX, cursorY, phase, matchMask, clearTimerMs, chainCount, fallPieces,
  scrollSpeedPxPerSec, scrollOffsetPx, levelQueue, totalLevelLines, rowsInserted,
  score, matchesTotal, linesClearedEq, targetLines, risePauseMs, risePauseMaxMs,
  hasWon, hasLost,
  fired,      \* the hooks invoked by the last call, in order
  swapCount,  \* how many times the onSwap hook has been invoked
  started,    \* the level has been set up or play has begun
  levelIds,   \* the ids of the host's list of levels, in order
  currentId,  \* the id of the level being played
  nextId,     \* the id getNextLevelId last returned
  paused,                 \* the host's pausedRef
  prevScrollSpeedRef,     \* the scroll speed togglePause remembers, or null
  xHoldRef,               \* X is held down
  xPrevRateRef,           \* the raise rate the X handler remembers, or null
  autoRiseRateRowsPerSec  \* the raise rate, in thousandths of a row per second

engineVars ==
  <<grid, cursorX, cursorY, phase, matchMask, clearTimerMs, chainCount, fallPieces,
    scrollSpeedPxPerSec, scrollOffsetPx, levelQueue, totalLevelLines, rowsInserted,
    score, matchesTotal, linesClearedEq, targetLines, risePauseMs, risePauseMaxMs,
    hasWon, hasLost>>

pauseVars ==
  <<paused, prevScrollSpeedRef, xHoldRef, xPrevRateRef, autoRiseRateRowsPerSec>>

hostVars == <<levelIds, currentId, nextId, pauseVars>>

vars == <<engineVars, fired, swapCount, started, hostVars>>

\* the engine object as a record
Self ==
  [grid |-> grid, cursorX |-> cursorX, cursorY |-> cursorY, phase |-> phase,
   matchMask |-> matchMask, clearTimerMs |-> clearTimerMs, chainCount |-> chainCount,
   fallPieces |-> fallPieces, scrollSpeedPxPerSec |-> scrollSpeedPxPerSec,
   scrollOffsetPx |-> scrollOffsetPx, levelQueue |-> levelQueue,
   totalLevelLines |-> totalLevelLines, rowsInserted |-> rowsInserted,
   score |-> score, matchesTotal |-> matchesTotal, linesClearedEq |-> linesClearedEq,
   targetLines |-> targetLines, risePauseMs |-> risePauseMs,
   risePauseMaxMs |-> risePauseMaxMs, hasWon |-> hasWon, hasLost |-> hasLost,
   fired |-> << >>]

AssignFields(s) ==
  /\ grid' = s.grid /\ cursorX' = s.cursorX /\ cursorY' = s.cursorY
  /\ phase' = s.phase /\ matchMask' = s.matchMask /\ clearTimerMs' = s.clearTimerMs
  /\ chainCount' = s.chainCount /\ fallPieces' = s.fallPieces
  /\ scrollSpeedPxPerSec' = s.scrollSpeedPxPerSec /\ scrollOffsetPx' = s.scrollOffsetPx
  /\ levelQueue' = s.levelQueue /\ totalLevelLines' = s.totalLevelLines
  /\ rowsInserted' = s.rowsInserted /\ score' = s.score
  /\ matchesTotal' = s.matchesTotal /\ linesClearedEq' = s.linesClearedEq
  /\ targetLines' = s.targetLines /\ risePauseMs' = s.risePauseMs
  /\ risePauseMaxMs' = s.risePauseMaxMs /\ hasWon' = s.hasWon /\ hasLost' = s.hasLost
  /\ fired' = s.fired

Assign(s) == AssignFields(s) /\ UNCHANGED hostVars

Hook(name, arg) == [hook |-> name, arg |-> arg]

\* ---------------------------------------------------------------- cursor and swap
setCursorAbsolute(s, x, y) ==
  [s EXCEPT !.cursorX = Max(0, Min(Width - 2, ToInt32(x))),
            !.cursorY = Max(0, Min(Height - 1, ToInt32(y)))]

\* moveCursor without the clamp to the board
moveCursor_unclamped(s, dx, dy) ==
  [s EXCEPT !.cursorX = s.cursorX + dx, !.cursorY = s.cursorY + dy]

moveCursor(s, dx, dy) ==
  [s EXCEPT !.cursorX = Max(0, Min(Width - 2, s.cursorX + dx)),
            !.cursorY = Max(0, Min(Height - 1, s.cursorY + dy))]

\* the grid with the two cells under the cursor exchanged
exchanged(s) ==
  [s.grid EXCEPT ![s.cursorY][s.cursorX] = s.grid[s.cursorY][s.cursorX + 1],
                 ![s.cursorY][s.cursorX + 1] = s.grid[s.cursorY][s.cursorX]]

\* swap without the both-cells-empty return
swap_noEmptyCheck(s) ==
  IF s.phase # "idle" \/ s.hasWon \/ s.hasLost THEN s
  ELSE LET a == s.grid[s.cursorY][s.cursorX]
           b == s.grid[s.cursorY][s.cursorX + 1]
           scan == scanForMatches(exchanged(s))
           s1 == [s EXCEPT !.grid = exchanged(s),
                           !.fired = Append(@, Hook("onSwap", 0)),
                           !.matchMask = scan.mask]
       IN  IF scan.found
           THEN [s1 EXCEPT !.phase = "clearing",
                           !.clearTimerMs = SwapClearMs,
                           !.chainCount = Max(s1.chainCount, 1)]
           ELSE IF a < 0 \/ b < 0 THEN startSettlingAnimation(s1)
           ELSE s1

\* swap that starts a settle only when the left cell was the empty one
swap_settleLeftOnly(s) ==
  IF s.phase # "idle" \/ s.hasWon \/ s.hasLost THEN s
  ELSE LET a == s.grid[s.cursorY][s.cursorX]
           b == s.grid[s.cursorY][s.cursorX + 1]
       IN  IF a < 0 /\ b < 0 THEN s
           ELSE LET scan == scanForMatches(exchanged(s))
                    s1 == [s EXCEPT !.grid = exchanged(s),
                                    !.fired = Append(@, Hook("onSwap", 0)),
                                    !.matchMask = scan.mask]
                IN  IF scan.found
                    THEN [s1 EXCEPT !.phase = "clearing",
                                    !.clearTimerMs = SwapClearMs,
                                    !.chainCount = Max(s1.chainCount, 1)]
                    ELSE IF a < 0 THEN startSettlingAnimation(s1)
                    ELSE s1

\* swap that notifies the swap listener only when the swap makes a match
swap_notifyOnMatch(s) ==
  IF s.phase # "idle" \/ s.hasWon \/ s.hasLost THEN s
  ELSE LET a == s.grid[s.cursorY][s.cursorX]
           b == s.grid[s.cursorY][s.cursorX + 1]
       IN  IF a < 0 /\ b < 0 THEN s
           ELSE LET scan == scanForMatches(exchanged(s))
                    s1 == [s EXCEPT !.grid = exchanged(s),
                                    !.matchMask = scan.mask]
                IN  IF scan.found
                    THEN [s1 EXCEPT !.phase = "clearing",
                                    !.fired = Append(@, Hook("onSwap", 0)),
                                    !.clearTimerMs = SwapClearMs,
                                    !.chainCount = Max(s1.chainCount, 1)]
                    ELSE IF a < 0 \/ b < 0 THEN startSettlingAnimation(s1)
                    ELSE s1

swap(s) ==
  IF s.phase # "idle" \/ s.hasWon \/ s.hasLost THEN s
  ELSE LET a == s.grid[s.cursorY][s.cursorX]
           b == s.grid[s.cursorY][s.cursorX + 1]
       IN  IF a < 0 /\ b < 0 THEN s
           ELSE LET scan == scanForMatches(exchanged(s))
                    s1 == [s EXCEPT !.grid = exchanged(s),
                                    !.fired = Append(@, Hook("onSwap", 0)),
                                    !.matchMask = scan.mask]
                IN  IF scan.found
                    THEN [s1 EXCEPT !.phase = "clearing",
                                    !.clearTimerMs = SwapClearMs,
                                    !.chainCount = Max(s1.chainCount, 1)]
                    ELSE IF a < 0 \/ b < 0 THEN startSettlingAnimation(s1)
                    ELSE s1

\* ---------------------------------------------------------------- row insertion
\* insertRowFromBottomFromQueue that sanitises the row again, against the grid
\* as it is at the insertion
insertRowFromBottomFromQueue_resanitize(s) ==
  IF \E x \in Cols : s.grid[0][x] >= 0
  THEN [lost |-> TRUE, s |-> s]
  ELSE LET next == shiftNextRow(s.levelQueue)
       IN  [lost |-> FALSE,
            s |-> [s EXCEPT !.grid = [y \in Rows |->
                                        IF y < Height - 1 THEN s.grid[y + 1]
                                        ELSE sanitizeRow(next.row, s.grid)],
                            !.levelQueue = next.levelQueue,
                            !.cursorY = Max(0, s.cursorY - 1),
                            !.rowsInserted = @ + 1]]

\* insertRowFromBottomFromQueue that counts the row before it looks at the top row
insertRowFromBottomFromQueue_countsFirst(s) ==
  LET counted == [s EXCEPT !.cursorY = Max(0, s.cursorY - 1), !.rowsInserted = @ + 1]
  IN  IF \E x \in Cols : s.grid[0][x] >= 0
      THEN [lost |-> TRUE, s |-> counted]
      ELSE LET next == shiftNextRow(s.levelQueue)
           IN  [lost |-> FALSE,
                s |-> [counted EXCEPT !.grid = [y \in Rows |->
                                                  IF y < Height - 1 THEN s.grid[y + 1]
                                                  ELSE next.row],
                                      !.levelQueue = next.levelQueue]]

\* insertRowFromBottomFromQueue that leaves the cursor where it is on the screen
insertRowFromBottomFromQueue_cursorStays(s) ==
  IF \E x \in Cols : s.grid[0][x] >= 0
  THEN [lost |-> TRUE, s |-> s]
  ELSE LET next == shiftNextRow(s.levelQueue)
       IN  [lost |-> FALSE,
            s |-> [s EXCEPT !.grid = [y \in Rows |->
                                        IF y < Height - 1 THEN s.grid[y + 1]
                                        ELSE next.row],
                            !.levelQueue = next.levelQueue,
                            !.rowsInserted = @ + 1]]

\* insertRowFromBottomFromQueue: lost, or the grid shifted up with the next row
insertRowFromBottomFromQueue(s) ==
  IF \E x \in Cols : s.grid[0][x] >= 0
  THEN [lost |-> TRUE, s |-> s]
  ELSE LET next == shiftNextRow(s.levelQueue)
       IN  [lost |-> FALSE,
            s |-> [s EXCEPT !.grid = [y \in Rows |->
                                        IF y < Height - 1 THEN s.grid[y + 1]
                                        ELSE next.row],
                            !.levelQueue = next.levelQueue,
                            !.cursorY = Max(0, s.cursorY - 1),
                            !.rowsInserted = @ + 1]]

\* the row loop with `if` for `while`: at most one row a frame
consumeRows_oneRow(s) ==
  IF s.scrollOffsetPx >= cellSize
  THEN LET s1 == [s EXCEPT !.scrollOffsetPx = @ - cellSize]
           r == insertRowFromBottomFromQueue(s1)
       IN  IF r.lost THEN [r.s EXCEPT !.hasLost = TRUE] ELSE r.s
  ELSE s

\* while (scrollOffsetPx >= cellPx): one row per cell crossed; a loss ends update
RECURSIVE consumeRows(_)
consumeRows(s) ==
  IF s.scrollOffsetPx >= cellSize
  THEN LET s1 == [s EXCEPT !.scrollOffsetPx = @ - cellSize]
           r == insertRowFromBottomFromQueue(s1)
       IN  IF r.lost THEN [r.s EXCEPT !.hasLost = TRUE] ELSE consumeRows(r.s)
  ELSE s

\* scrollStep whose top-edge test takes only an edge strictly above the top
scrollStep_strictTopEdge(s, dtMs) ==
  LET s1 == consumeRows([s EXCEPT !.scrollOffsetPx =
                                     @ + (s.scrollSpeedPxPerSec * dtMs) \div 1000])
  IN  IF s1.hasLost THEN s1
      ELSE IF \E y \in Rows, x \in Cols :
                 s1.grid[y][x] >= 0 /\ y * cellSize - s1.scrollOffsetPx < 0
           THEN [s1 EXCEPT !.hasLost = TRUE]
           ELSE s1

\* the scrolling block of update
scrollStep(s, dtMs) ==
  LET s1 == consumeRows([s EXCEPT !.scrollOffsetPx =
                                     @ + (s.scrollSpeedPxPerSec * dtMs) \div 1000])
  IN  IF s1.hasLost THEN s1
      ELSE IF \E y \in Rows, x \in Cols :
                 s1.grid[y][x] >= 0 /\ y * cellSize - s1.scrollOffsetPx <= 0
           THEN [s1 EXCEPT !.hasLost = TRUE]
           ELSE s1

\* ---------------------------------------------------------------- clearing
chainMultTable == <<1, 2, 4, 8, 16, 32, 64>>

RECURSIVE chainMult_uncapped(_)
\* chainMult that goes on doubling past the end of the table
chainMult_uncapped(n) ==
  IF n - 1 < Len(chainMultTable) THEN chainMultTable[n] ELSE 2 * chainMult_uncapped(n - 1)

chainMult(n) ==
  IF n - 1 < Len(chainMultTable) THEN chainMultTable[n] ELSE chainMultTable[Len(chainMultTable)]

RECURSIVE Pow2(_)
Pow2(n) == IF n <= 0 THEN 1 ELSE 2 * Pow2(n - 1)

\* the clearing block with the pause of a clear replacing the pause still left
clearingStep_pauseReplaced(s, dtMs) ==
  LET s1 == [s EXCEPT !.clearTimerMs = @ - dtMs]
  IN  IF s1.clearTimerMs > 0 THEN s1
      ELSE LET c == applyClearAndCount(s1)
               s2 == [s1 EXCEPT !.grid = c.grid]
           IN  IF c.tilesCleared > 0
               THEN LET lineEq == c.tilesCleared \div Width
                        s3 == [s2 EXCEPT
                                 !.fired = Append(@, Hook("onMatch", s2.chainCount)),
                                 !.matchesTotal = @ + 1,
                                 !.score = @ + c.tilesCleared * chainMult(s2.chainCount),
                                 !.linesClearedEq = IF lineEq > 0 THEN @ + lineEq ELSE @]
                    IN  IF s3.linesClearedEq >= s3.targetLines /\ c.clearedBelowLine
                        THEN [s3 EXCEPT !.hasWon = TRUE]
                        ELSE LET add == baseMs * Pow2(Max(0, s3.chainCount - 1))
                             IN  startSettlingAnimation(
                                   [s3 EXCEPT !.risePauseMs = add,
                                              !.risePauseMaxMs = add])
               ELSE startSettlingAnimation(s2)

\* the clearing block with a started row of cleared tiles counted as a line
clearingStep_roundsUp(s, dtMs) ==
  LET s1 == [s EXCEPT !.clearTimerMs = @ - dtMs]
  IN  IF s1.clearTimerMs > 0 THEN s1
      ELSE LET c == applyClearAndCount(s1)
               s2 == [s1 EXCEPT !.grid = c.grid]
           IN  IF c.tilesCleared > 0
               THEN LET lineEq == (c.tilesCleared + Width - 1) \div Width
                        s3 == [s2 EXCEPT
                                 !.fired = Append(@, Hook("onMatch", s2.chainCount)),
                                 !.matchesTotal = @ + 1,
                                 !.score = @ + c.tilesCleared * chainMult(s2.chainCount),
                                 !.linesClearedEq = IF lineEq > 0 THEN @ + lineEq ELSE @]
                    IN  IF s3.linesClearedEq >= s3.targetLines /\ c.clearedBelowLine
                        THEN [s3 EXCEPT !.hasWon = TRUE]
                        ELSE LET add == baseMs * Pow2(Max(0, s3.chainCount - 1))
                             IN  startSettlingAnimation(
                                   [s3 EXCEPT !.risePauseMs = @ + add,
                                              !.risePauseMaxMs = s3.risePauseMs + add])
               ELSE startSettlingAnimation(s2)

\* the clearing block with the timer tested before the frame is counted off
\* it: the clear comes one frame late
clearingStep_lateByOneFrame(s, dtMs) ==
  LET s1 == [s EXCEPT !.clearTimerMs = @ - dtMs]
  IN  IF s.clearTimerMs > 0 THEN s1
      ELSE LET c == applyClearAndCount(s1)
               s2 == [s1 EXCEPT !.grid = c.grid]
           IN  IF c.tilesCleared > 0
               THEN LET lineEq == c.tilesCleared \div Width
                        s3 == [s2 EXCEPT
                                 !.fired = Append(@, Hook("onMatch", s2.chainCount)),
                                 !.matchesTotal = @ + 1,
                                 !.score = @ + c.tilesCleared * chainMult(s2.chainCount),
                                 !.linesClearedEq = IF lineEq > 0 THEN @ + lineEq ELSE @]
                    IN  IF s3.linesClearedEq >= s3.targetLines /\ c.clearedBelowLine
                        THEN [s3 EXCEPT !.hasWon = TRUE]
                        ELSE LET add == baseMs * Pow2(Max(0, s3.chainCount - 1))
                             IN  startSettlingAnimation(
                                   [s3 EXCEPT !.risePauseMs = @ + add,
                                              !.risePauseMaxMs = s3.risePauseMs + add])
               ELSE startSettlingAnimation(s2)

\* the clearing block of update
clearingStep(s, dtMs) ==
  LET s1 == [s EXCEPT !.clearTimerMs = @ - dtMs]
  IN  IF s1.clearTimerMs > 0 THEN s1
      ELSE LET c == applyClearAndCount(s1)
               s2 == [s1 EXCEPT !.grid = c.grid]
           IN  IF c.tilesCleared > 0
               THEN LET lineEq == c.tilesCleared \div Width
                        s3 == [s2 EXCEPT
                                 !.fired = Append(@, Hook("onMatch", s2.chainCount)),
                                 !.matchesTotal = @ + 1,
                                 !.score = @ + c.tilesCleared * chainMult(s2.chainCount),
                                 !.linesClearedEq = IF lineEq > 0 THEN @ + lineEq ELSE @]
                    IN  IF s3.linesClearedEq >= s3.targetLines /\ c.clearedBelowLine
                        THEN [s3 EXCEPT !.hasWon = TRUE]
                        ELSE LET add == baseMs * Pow2(Max(0, s3.chainCount - 1))
                             IN  startSettlingAnimation(
                                   [s3 EXCEPT !.risePauseMs = @ + add,
                                              !.risePauseMaxMs = s3.risePauseMs + add])
               ELSE startSettlingAnimation(s2)

\* ---------------------------------------------------------------- settling
\* advance with the comparison turned round: a piece above its target row
\* never moves
advance_wrongSide(p, dtMs) ==
  IF p.y > p.toY * 1000
  THEN [p EXCEPT !.y = Min(p.y + (p.speedRowsPerSec * dtMs) \div 1000, p.toY * 1000)]
  ELSE p

\* one tick of a fall piece (y in thousandths of a row)
advance(p, dtMs) ==
  IF p.y < p.toY * 1000
  THEN [p EXCEPT !.y = Min(p.y + (p.speedRowsPerSec * dtMs) \div 1000, p.toY * 1000)]
  ELSE p

\* land that writes only the first fall piece into the grid
land_headOnly(g, pieces) ==
  IF pieces = << >> THEN g
  ELSE [g EXCEPT ![Head(pieces).toY][Head(pieces).x] = Head(pieces).color]

RECURSIVE land(_, _)
land(g, pieces) ==
  IF pieces = << >> THEN g
  ELSE land([g EXCEPT ![Head(pieces).toY][Head(pieces).x] = Head(pieces).color],
            Tail(pieces))

\* the win-line position the settle-time win check computes
winLineScreenYAt(s) ==
  LET cellPx == WinCheckCellPx
      canvasH == Height * cellPx
  IN  canvasH + (s.totalLevelLines - s.rowsInserted) * cellPx - s.scrollOffsetPx

\* getState().winLineY
winLineY(s) ==
  Height * cellSize + (s.totalLevelLines - s.rowsInserted) * cellSize - s.scrollOffsetPx

\* winCheck that takes a cell as above the line only when its bottom edge is
\* strictly above it
winCheck_strictlyAbove(s) ==
  IF s.rowsInserted >= s.totalLevelLines
  THEN LET cellPx == WinCheckCellPx
           canvasH == Height * cellPx
           winLineScreenY == canvasH + (s.totalLevelLines - s.rowsInserted) * cellPx
                             - s.scrollOffsetPx
           anyAbove == \E y \in Rows, x \in Cols :
                          /\ s.grid[y][x] >= 0
                          /\ (y * cellPx - s.scrollOffsetPx) + cellPx < winLineScreenY
       IN  IF ~anyAbove
           THEN [s EXCEPT !.hasWon = TRUE, !.fired = Append(@, Hook("onWin", 0))]
           ELSE s
  ELSE s

\* the rising-win-line check made when a settle ends without a cascade
winCheck(s) ==
  IF s.rowsInserted >= s.totalLevelLines
  THEN LET cellPx == WinCheckCellPx
           canvasH == Height * cellPx
           winLineScreenY == canvasH + (s.totalLevelLines - s.rowsInserted) * cellPx
                             - s.scrollOffsetPx
           anyAbove == \E y \in Rows, x \in Cols :
                          /\ s.grid[y][x] >= 0
                          /\ (y * cellPx - s.scrollOffsetPx) + cellPx <= winLineScreenY
       IN  IF ~anyAbove
           THEN [s EXCEPT !.hasWon = TRUE, !.fired = Append(@, Hook("onWin", 0))]
           ELSE s
  ELSE s

\* resolveSettle whose cascade leaves chainCount at max(chainCount, 1)
resolveSettle_noIncrement(s) ==
  LET scan == scanForMatches(s.grid)
      s1 == [s EXCEPT !.matchMask = scan.mask]
  IN  IF scan.found
      THEN [s1 EXCEPT !.phase = "clearing", !.clearTimerMs = CascadeClearMs,
                      !.chainCount = Max(@, 1)]
      ELSE winCheck([s1 EXCEPT !.phase = "idle", !.chainCount = 0])

\* resolveSettle that goes back to idle without resetting chainCount
resolveSettle_chainNotReset(s) ==
  LET scan == scanForMatches(s.grid)
      s1 == [s EXCEPT !.matchMask = scan.mask]
  IN  IF scan.found
      THEN [s1 EXCEPT !.phase = "clearing", !.clearTimerMs = CascadeClearMs,
                      !.chainCount = @ + 1]
      ELSE winCheck([s1 EXCEPT !.phase = "idle"])

\* after the fall pieces have landed: cascade, or back to idle and the win check
resolveSettle(s) ==
  LET scan == scanForMatches(s.grid)
      s1 == [s EXCEPT !.matchMask = scan.mask]
  IN  IF scan.found
      THEN [s1 EXCEPT !.phase = "clearing", !.clearTimerMs = CascadeClearMs,
                      !.chainCount = @ + 1]
      ELSE winCheck([s1 EXCEPT !.phase = "idle", !.chainCount = 0])

\* the settling block of update
settlingStep(s, dtMs) ==
  IF Len(s.fallPieces) > 0
  THEN LET moved == [i \in 1 .. Len(s.fallPieces) |-> advance(s.fallPieces[i], dtMs)]
           allLanded == \A i \in 1 .. Len(moved) : ~(moved[i].y < moved[i].toY * 1000)
       IN  IF ~allLanded THEN [s EXCEPT !.fallPieces = moved]
           ELSE resolveSettle([s EXCEPT !.grid = land(s.grid, moved),
                                        !.fallPieces = << >>])
  ELSE resolveSettle(s)

\* ---------------------------------------------------------------- update
\* update without the return that ends the clearing block: a clear goes on into
\* the settling block in the same frame
update_clearThenSettle(s, dtMs) ==
  IF s.hasWon \/ s.hasLost THEN s
  ELSE LET s1 == IF s.risePauseMs > 0
                 THEN [s EXCEPT !.risePauseMs = Max(0, @ - dtMs)] ELSE s
           s2 == IF s1.phase = "idle" /\ s1.scrollSpeedPxPerSec > 0 /\ s1.risePauseMs <= 0
                 THEN scrollStep(s1, dtMs) ELSE s1
           s3 == IF s2.phase = "clearing" THEN clearingStep(s2, dtMs) ELSE s2
       IN  IF s2.hasLost THEN s2
           ELSE IF s3.hasWon THEN s3
           ELSE IF s3.phase = "settling" THEN settlingStep(s3, dtMs)
           ELSE s3

\* update without the return on a finished game
update_ignoresTerminal(s, dtMs) ==
  LET s1 == IF s.risePauseMs > 0
            THEN [s EXCEPT !.risePauseMs = Max(0, @ - dtMs)] ELSE s
      s2 == IF s1.phase = "idle" /\ s1.scrollSpeedPxPerSec > 0 /\ s1.risePauseMs <= 0
            THEN scrollStep(s1, dtMs) ELSE s1
  IN  IF s2.hasLost /\ ~s.hasLost THEN s2
      ELSE IF s2.phase = "clearing" THEN clearingStep(s2, dtMs)
      ELSE IF s2.phase = "settling" THEN settlingStep(s2, dtMs)
      ELSE s2

\* update with the rise gate tested on the pause as it was before the frame's
\* countdown
update_gateBeforeCountdown(s, dtMs) ==
  IF s.hasWon \/ s.hasLost THEN s
  ELSE LET s1 == IF s.risePauseMs > 0
                 THEN [s EXCEPT !.risePauseMs = Max(0, @ - dtMs)] ELSE s
           s2 == IF s1.phase = "idle" /\ s1.scrollSpeedPxPerSec > 0 /\ s.risePauseMs <= 0
                 THEN scrollStep(s1, dtMs) ELSE s1
       IN  IF s2.hasLost THEN s2
           ELSE IF s2.phase = "clearing" THEN clearingStep(s2, dtMs)
           ELSE IF s2.phase = "settling" THEN settlingStep(s2, dtMs)
           ELSE s2

update(s, dtMs) ==
  IF s.hasWon \/ s.hasLost THEN s
  ELSE LET s1 == IF s.risePauseMs > 0
                 THEN [s EXCEPT !.risePauseMs = Max(0, @ - dtMs)] ELSE s
           s2 == IF s1.phase = "idle" /\ s1.scrollSpeedPxPerSec > 0 /\ s1.risePauseMs <= 0
                 THEN scrollStep(s1, dtMs) ELSE s1
       IN  IF s2.hasLost THEN s2
           ELSE IF s2.phase = "clearing" THEN clearingStep(s2, dtMs)
           ELSE IF s2.phase = "settling" THEN settlingStep(s2, dtMs)
           ELSE s2

\* ---------------------------------------------------------------- inputs
\* frame times (ms)
Dts == {125, 2000}
\* scroll speeds the host writes: 0 on pause, two cells per second while X is
\* held, the previous speed afterwards
HostScrollSpeeds == {0, DefaultScrollSpeed, 2 * cellSize}
\* the four arrow keys and two jumps past the board
MoveDeltas == {<<-1, 0>>, <<1, 0>>, <<0, -1>>, <<0, 1>>,
               <<-Width, -Height>>, <<Width, Height>>}
\* pointer cells: two on the board, two past its corners
PointerCells == {<<-1, -1>>, <<Width, Height>>, <<0, 2>>, <<1, 1>>}
VisibleCounts == {0, 2, Height}
TotalLevelLinesSet == {2}
TargetLinesSet == {1, 3}

RECURSIVE SeqsUpTo(_, _)
SeqsUpTo(S, n) ==
  IF n = 0 THEN { << >> }
  ELSE LET shorter == SeqsUpTo(S, n - 1)
       IN  shorter \cup { Append(q, e) : q \in shorter, e \in S }

\* the levels played: none, three full rows, three rows with gaps (one short),
\* and four rows that fill one column to the top
Levels == { << >>,
            << <<1, 1, 0>>, <<0, 0, 1>>, <<1, 1, 0>> >>,
            << <<0, 0, 1>>, <<2, -1, 0>>, <<1, 1>> >>,
            << <<0, 1, 0>>, <<1>>, <<1>>, <<0>> >> }

\* ---------------------------------------------------------------- actions
\* the engine as constructed, with the fields the host assigns at start
\* the host with no list of levels loaded
\* a ref that holds no number
null == -1

\* the level's raise rate, in thousandths of a row per second: the rate that
\* gives the default scroll speed
BaseRaiseRate == (1000 * DefaultScrollSpeed) \div cellSize

\* the host's pause and raise-key refs before any key is pressed
InputDefaults ==
  /\ paused = FALSE /\ prevScrollSpeedRef = null
  /\ xHoldRef = FALSE /\ xPrevRateRef = null
  /\ autoRiseRateRowsPerSec = BaseRaiseRate

HostDefaults == levelIds = << >> /\ currentId = "" /\ nextId = "" /\ InputDefaults

FieldDefaults ==
  /\ cursorX = (Width - 2) \div 2
  /\ cursorY = Height \div 2
  /\ matchMask = blankMask
  /\ clearTimerMs = 0
  /\ chainCount = 0
  /\ fallPieces = << >>
  /\ scrollSpeedPxPerSec = DefaultScrollSpeed
  /\ scrollOffsetPx = 0
  /\ rowsInserted = 0
  /\ score = 0
  /\ matchesTotal = 0
  /\ linesClearedEq = 0
  /\ risePauseMs = 0
  /\ risePauseMaxMs = 0
  /\ hasWon = FALSE
  /\ hasLost = FALSE
  /\ fired = << >>
  /\ swapCount = 0
  /\ started = FALSE

Init ==
  /\ FieldDefaults
  /\ HostDefaults
  /\ grid = emptyGrid
  /\ phase = "idle"
  /\ levelQueue = << >>
  /\ totalLevelLines \in TotalLevelLinesSet
  /\ targetLines \in TargetLinesSet

SetLevelQueue(rows, visibleCount) ==
  /\ ~started
  /\ Assign(setLevelQueue(Self, rows, visibleCount))
  /\ started' = TRUE
  /\ UNCHANGED swapCount

SetStartingLines(n) ==
  /\ ~started
  /\ grid = emptyGrid
  /\ grid' \in setStartingLines(grid, n)
  /\ fired' = << >>
  /\ UNCHANGED <<cursorX, cursorY, phase, matchMask, clearTimerMs, chainCount,
                 fallPieces, scrollSpeedPxPerSec, scrollOffsetPx, levelQueue,
                 totalLevelLines, rowsInserted, score, matchesTotal, linesClearedEq,
                 targetLines, risePauseMs, risePauseMaxMs, hasWon, hasLost,
                 swapCount, started, hostVars>>

MoveCursor(dx, dy) ==
  /\ Assign(moveCursor(Self, dx, dy))
  /\ started' = TRUE
  /\ UNCHANGED swapCount

SetCursorAbsolute(x, y) ==
  /\ Assign(setCursorAbsolute(Self, x, y))
  /\ started' = TRUE
  /\ UNCHANGED swapCount

onSwapCalls(s) == Cardinality({i \in 1 .. Len(s.fired) : s.fired[i].hook = "onSwap"})

Swap ==
  /\ swapCount + onSwapCalls(swap(Self)) <= MaxSwaps
  /\ Assign(swap(Self))
  /\ swapCount' = swapCount + onSwapCalls(swap(Self))
  /\ started' = TRUE

\* the host's write to the scroll speed field
SetScrollSpeed(v) ==
  /\ Assign([Self EXCEPT !.scrollSpeedPxPerSec = v])
  /\ started' = TRUE
  /\ UNCHANGED swapCount

\* a frame; taken only for frame times that move the scroll by a whole number
\* of quarter cells, which keeps the scroll offsets of the model few
Update(dtMs) ==
  /\ (scrollSpeedPxPerSec * dtMs) % (1000 * (cellSize \div 4)) = 0
  /\ \E t \in {update(Self, dtMs)} :
       t.rowsInserted <= MaxRowsInserted /\ Assign(t)
  /\ started' = TRUE
  /\ UNCHANGED swapCount

Next ==
  \/ \E rows \in Levels, visibleCount \in VisibleCounts : SetLevelQueue(rows, visibleCount)
  \/ \E d \in MoveDeltas : MoveCursor(d[1], d[2])
  \/ \E c \in PointerCells : SetCursorAbsolute(c[1], c[2])
  \/ Swap
  \/ \E v \in HostScrollSpeeds : SetScrollSpeed(v)
  \/ \E dtMs \in Dts : Update(dtMs)

Spec == Init /\ [][Next]_vars

\* ---------------------------------------------------------------- other specifications
UpdateAny == \E dtMs \in Dts : Update(dtMs)
MoveAny == \E d \in MoveDeltas : MoveCursor(d[1], d[2])
SetCursorAny == \E c \in PointerCells : SetCursorAbsolute(c[1], c[2])

\* Levels with a cell outside the palette: an index one past the last colour,
\* and a negative value other than EMPTY.
AnyLevels == { << <<0, NumColors, 1>> >>, << <<-2, 0>> >> }

StartingLineCounts == {0, 1}

NextAnyRows ==
  \/ \E n \in StartingLineCounts : SetStartingLines(n)
  \/ \E rows \in AnyLevels, visibleCount \in VisibleCounts : SetLevelQueue(rows, visibleCount)
  \/ \E d \in MoveDeltas : MoveCursor(d[1], d[2])
  \/ \E c \in PointerCells : SetCursorAbsolute(c[1], c[2])
  \/ Swap
  \/ \E v \in HostScrollSpeeds : SetScrollSpeed(v)
  \/ \E dtMs \in Dts : Update(dtMs)

SpecAnyRows == Init /\ [][NextAnyRows]_vars

\* Automatic rising alone: a level of full rows of valid colours on a fresh
\* engine, then frames and nothing else.
FullRows == { <<a, b, c>> : a \in Colors, b \in Colors, c \in Colors }
RiseLevels(n) == SeqsUpTo(FullRows, n)

InitRise == Init /\ targetLines = 3

NextRise ==
  \/ ~started /\ \E rows \in RiseLevels(MaxRows), visibleCount \in VisibleCounts :
                    SetLevelQueue(rows, visibleCount)
  \/ started /\ \E dtMs \in Dts : Update(dtMs)

SpecRise == InitRise /\ [][NextRise]_vars

\* The sanitiser on its own: every row over EMPTY and the colours, against every
\* pair of bottom context rows.
CellValues == {EMPTY} \cup Colors
AllRows == [Cols -> CellValues]

InitSanitize ==
  /\ FieldDefaults
  /\ HostDefaults
  /\ phase = "idle"
  /\ totalLevelLines = 2
  /\ targetLines = 3
  /\ \E r1 \in AllRows, r2 \in AllRows :
       grid = [y \in Rows |-> IF y = Height - 2 THEN r2
                              ELSE IF y = Height - 1 THEN r1 ELSE emptyRow]
  /\ \E row \in AllRows : levelQueue = <<row>>

\* levelQueue holds the input row, then the input row and the sanitised row
SanitizeRow ==
  /\ ~started
  /\ levelQueue' = <<levelQueue[1], sanitizeRow(levelQueue[1], grid)>>
  /\ started' = TRUE
  /\ UNCHANGED <<grid, cursorX, cursorY, phase, matchMask, clearTimerMs, chainCount,
                 fallPieces, scrollSpeedPxPerSec, scrollOffsetPx, totalLevelLines,
                 rowsInserted, score, matchesTotal, linesClearedEq, targetLines,
                 risePauseMs, risePauseMaxMs, hasWon, hasLost, fired, swapCount,
                 hostVars>>

SpecSanitize == InitSanitize /\ [][SanitizeRow]_vars

\* The match scan on its own: any grid of EMPTY and two colours, with the phase
\* set to settling and nothing falling, so that the settle scans it.
ScanCells == {EMPTY, 0, 1}

InitScan ==
  /\ FieldDefaults
  /\ HostDefaults
  /\ grid \in [Rows -> [Cols -> ScanCells]]
  /\ phase = "settling"
  /\ levelQueue = << >>
  /\ totalLevelLines = 2
  /\ targetLines = 3

\* one frame on the settling grid: nothing is falling, so update scans at once
ScanAfterSettle ==
  /\ ~started
  /\ \E dtMs \in {d \in Dts : d < CascadeClearMs} : Assign(update(Self, dtMs))
  /\ started' = TRUE
  /\ UNCHANGED swapCount

NextScan == ScanAfterSettle

SpecScan == InitScan /\ [][NextScan]_vars

\* One chain on its own: the engine in the clearing phase at any chain depth,
\* on a settled grid of two colours with the mask the scan left on it, then the
\* frames of that chain until the phase is idle again. The raise key is held,
\* so both frame times pass.
ChainDepths == (1 .. MaxChainDepth) \cup {20}
RisePausesLeft == {0, baseMs \div 2}

InitClear ==
  /\ \E r1 \in [Cols -> ScanCells], r2 \in [Cols -> ScanCells], r3 \in [Cols -> ScanCells] :
       grid = [y \in Rows |-> IF y = 0 THEN emptyRow
                              ELSE IF y = 1 THEN r1 ELSE IF y = 2 THEN r2 ELSE r3]
  /\ \A y \in 0 .. (Height - 2), x \in Cols : grid[y][x] >= 0 => grid[y + 1][x] >= 0
  /\ scanForMatches(grid).found
  /\ matchMask = scanForMatches(grid).mask
  /\ phase = "clearing"
  /\ chainCount \in ChainDepths
  /\ clearTimerMs = IF chainCount = 1 THEN SwapClearMs ELSE CascadeClearMs
  /\ risePauseMs \in RisePausesLeft
  /\ risePauseMaxMs = IF risePauseMs > 0 THEN baseMs ELSE 0
  /\ cursorX = (Width - 2) \div 2
  /\ cursorY = Height \div 2
  /\ fallPieces = << >>
  /\ scrollSpeedPxPerSec = 2 * cellSize
  /\ scrollOffsetPx = 0
  /\ levelQueue = << >>
  /\ totalLevelLines = 2
  /\ rowsInserted = 0
  /\ score = 0
  /\ matchesTotal = 0
  /\ linesClearedEq = 0
  /\ targetLines \in TargetLinesSet
  /\ hasWon = FALSE
  /\ hasLost = FALSE
  /\ fired = << >>
  /\ swapCount = 0
  /\ started = TRUE
  /\ HostDefaults

ChainFrame == phase # "idle" /\ \E dtMs \in Dts : Update(dtMs)

SpecClear == InitClear /\ [][ChainFrame]_vars

\* The chain of a swap followed to its end: the clearing phase of a swap's
\* match with no pause left, and a frame loop that never stops.
InitChain == InitClear /\ chainCount = 1 /\ risePauseMs = 0

\* ENABLED <<ChainFrame>>_vars written out: some frame time passes the guards
\* of Update and the frame changes the state
ChainFrameEnabled ==
  /\ phase # "idle"
  /\ \E dtMs \in Dts :
       /\ (scrollSpeedPxPerSec * dtMs) % (1000 * (cellSize \div 4)) = 0
       /\ update(Self, dtMs).rowsInserted <= MaxRowsInserted
       /\ (update(Self, dtMs) # [Self EXCEPT !.fired = fired] \/ ~started)

\* The frame loop calls update on every animation frame and never stops: weak
\* fairness of ChainFrame, WF_vars(ChainFrame), with its enabling condition
\* written out.
ChainFairness == ([]<>~ChainFrameEnabled) \/ ([]<><<ChainFrame>>_vars)

SpecChainFair == InitChain /\ [][ChainFrame]_vars /\ ChainFairness

\* Rising on its own: a level, the host's scroll speeds, and frames of three
\* lengths, the middle one crossing two cells while the raise key is held.
ScrollDts == Dts \cup {1000}

NextScroll ==
  \/ \E rows \in Levels, visibleCount \in VisibleCounts : SetLevelQueue(rows, visibleCount)
  \/ \E v \in HostScrollSpeeds : SetScrollSpeed(v)
  \/ \E dtMs \in ScrollDts : Update(dtMs)

SpecScroll == Init /\ [][NextScroll]_vars

\* The starting fill on its own: setStartingLines on a fresh engine, for a
\* count below 0 and for two and three rows.
FillCounts == {-1, 2, 3}

NextStart == \E n \in FillCounts : SetStartingLines(n)

SpecStart == Init /\ [][NextStart]_vars

\* Level progression on its own: a list of up to MaxLevels ids (repeats
\* allowed), a current id from the list or outside it, and the host asking for
\* the next level.
LevelIds == {"level-1", "level-2", "level-3"}
CurrentIds == LevelIds \cup {"nope"}

InitLevels ==
  /\ FieldDefaults
  /\ grid = emptyGrid
  /\ phase = "idle"
  /\ levelQueue = << >>
  /\ totalLevelLines = 2
  /\ targetLines = 3
  /\ levelIds \in SeqsUpTo(LevelIds, MaxLevels)
  /\ currentId \in CurrentIds
  /\ nextId = ""
  /\ InputDefaults

GetNextLevelId ==
  /\ nextId' = getNextLevelId(levelIds, currentId)
  /\ UNCHANGED <<engineVars, fired, swapCount, started, levelIds, currentId, pauseVars>>

SpecLevels == InitLevels /\ [][GetNextLevelId]_vars

\* The host's keys around a pause: a level is set up, then P, X down, X up and
\* the swap key come in any order between frames.
TogglePause ==
  /\ started
  /\ paused' = ~paused
  /\ IF ~paused
     THEN /\ prevScrollSpeedRef' = scrollSpeedPxPerSec
          /\ AssignFields([Self EXCEPT !.scrollSpeedPxPerSec = 0])
     ELSE IF prevScrollSpeedRef # null
          THEN /\ AssignFields([Self EXCEPT !.scrollSpeedPxPerSec = prevScrollSpeedRef])
               /\ prevScrollSpeedRef' = null
          ELSE /\ AssignFields(Self)
               /\ UNCHANGED prevScrollSpeedRef
  /\ UNCHANGED <<swapCount, started, levelIds, currentId, nextId,
                 xHoldRef, xPrevRateRef, autoRiseRateRowsPerSec>>

\* onKeyDown for X: nothing once the game is won or while X is already held
OnKeyDownX ==
  /\ started /\ ~hasWon /\ ~xHoldRef
  /\ xHoldRef' = TRUE
  /\ xPrevRateRef' = autoRiseRateRowsPerSec
  /\ autoRiseRateRowsPerSec' = 2 * 1000
  /\ AssignFields([Self EXCEPT !.scrollSpeedPxPerSec = 2 * cellSize])
  /\ UNCHANGED <<swapCount, started, levelIds, currentId, nextId,
                 paused, prevScrollSpeedRef>>

\* onKeyUp for X: back to the remembered rate, or to the level's base rate
OnKeyUpX ==
  /\ started
  /\ LET rate == IF xPrevRateRef # null /\ xPrevRateRef > 0
                 THEN xPrevRateRef ELSE BaseRaiseRate
     IN  /\ autoRiseRateRowsPerSec' = rate
         /\ AssignFields([Self EXCEPT
                            !.scrollSpeedPxPerSec = (rate * cellSize) \div 1000])
  /\ xHoldRef' = FALSE
  /\ xPrevRateRef' = null
  /\ UNCHANGED <<swapCount, started, levelIds, currentId, nextId,
                 paused, prevScrollSpeedRef>>

\* onKeyDown for Z or space: a swap unless the game is won or paused
OnKeyDownSwap ==
  /\ started /\ ~hasWon
  /\ IF paused
     THEN AssignFields(Self) /\ UNCHANGED swapCount
     ELSE /\ swapCount + onSwapCalls(swap(Self)) <= MaxSwaps
          /\ AssignFields(swap(Self))
          /\ swapCount' = swapCount + onSwapCalls(swap(Self))
  /\ UNCHANGED <<started, hostVars>>

NextPause ==
  \/ \E rows \in Levels, visibleCount \in VisibleCounts : SetLevelQueue(rows, visibleCount)
  \/ TogglePause
  \/ OnKeyDownX
  \/ OnKeyUpX
  \/ OnKeyDownSwap
  \/ \E dtMs \in Dts : Update(dtMs)

SpecPause == Init /\ [][NextPause]_vars

\* ---------------------------------------------------------------- runs, stated directly
\* cell (x, y) of g is non-empty and one of three equal cells side by side
HRun(g, x, y) ==
  /\ g[y][x] >= 0
  /\ \E a \in Cols : /\ a <= x /\ x <= a + 2 /\ a + 2 <= Width - 1
                     /\ \A i \in a .. (a + 2) : g[y][i] = g[y][x]

\* cell (x, y) of g is non-empty and one of three equal cells stacked
VRun(g, x, y) ==
  /\ g[y][x] >= 0
  /\ \E a \in Rows : /\ a <= y /\ y <= a + 2 /\ a + 2 <= Height - 1
                     /\ \A i \in a .. (a + 2) : g[i][x] = g[y][x]

InRun(g, x, y) == HRun(g, x, y) \/ VRun(g, x, y)
HasRun(g) == \E y \in Rows, x \in Cols : InRun(g, x, y)

Terminal == hasWon \/ hasLost

\* the grid with the two cells under the cursor exchanged, cell by cell
CursorExchange ==
  [y \in Rows |-> [x \in Cols |->
     IF y = cursorY /\ x = cursorX THEN grid[cursorY][cursorX + 1]
     ELSE IF y = cursorY /\ x = cursorX + 1 THEN grid[cursorY][cursorX]
     ELSE grid[y][x]]]

BothCellsEmpty == grid[cursorY][cursorX] < 0 /\ grid[cursorY][cursorX + 1] < 0
OneCellEmpty == (grid[cursorY][cursorX] < 0) # (grid[cursorY][cursorX + 1] < 0)

\* g with every falling piece put back at the cell it left
Overlay(g, pieces) ==
  [y \in Rows |-> [x \in Cols |->
     IF \E i \in 1 .. Len(pieces) : pieces[i].x = x /\ pieces[i].fromY = y
     THEN (CHOOSE c \in Colors :
             \E i \in 1 .. Len(pieces) :
               pieces[i].x = x /\ pieces[i].fromY = y /\ pieces[i].color = c)
     ELSE g[y][x]]]

\* ---------------------------------------------------------------- C1
\* C1: once hasWon or hasLost is set, update(dt) for any dt returns the engine
\* as it was (every field unchanged, no hook invoked), and no step sets a flag
\* back to false.
C1_TerminalUpdateIsNoOp ==
  [][ /\ Terminal => \A dtMs \in Dts \cup {0, 16} : update(Self, dtMs) = Self
      /\ hasWon => hasWon'
      /\ hasLost => hasLost' ]_vars

\* a lost game that would rise if update ran
C1_Witness ==
  hasLost /\ phase = "idle" /\ scrollSpeedPxPerSec > 0 /\ risePauseMs = 0

\* ---------------------------------------------------------------- C2
\* C2: after hasWon or hasLost is set, none of update, swap, moveCursor and
\* setCursorAbsolute changes any engine field, the cursor included.
C2_TerminalFreezesAll ==
  [][ Terminal /\ (UpdateAny \/ Swap \/ MoveAny \/ SetCursorAny)
        => UNCHANGED engineVars ]_vars

\* ---------------------------------------------------------------- C3
CursorInBounds ==
  /\ 0 <= cursorX /\ cursorX <= Width - 2
  /\ 0 <= cursorY /\ cursorY <= Height - 1

Nearest(v, lo, hi) == IF v < lo THEN lo ELSE IF v > hi THEN hi ELSE v

\* C3: the cursor is always inside the grid with room for its right cell, and
\* a cursor request outside that range puts the cursor on the nearest cell of
\* the range instead of being dropped.
C3_CursorBounds ==
  /\ CursorInBounds
  /\ \A d \in MoveDeltas :
       LET t == moveCursor(Self, d[1], d[2])
       IN  /\ t.cursorX = Nearest(cursorX + d[1], 0, Width - 2)
           /\ t.cursorY = Nearest(cursorY + d[2], 0, Height - 1)
  /\ \A c \in PointerCells :
       LET t == setCursorAbsolute(Self, c[1], c[2])
       IN  /\ t.cursorX = Nearest(c[1], 0, Width - 2)
           /\ t.cursorY = Nearest(c[2], 0, Height - 1)

\* the cursor in the top right corner after rows have risen
C3_Witness == cursorX = Width - 2 /\ cursorY = 0 /\ rowsInserted > 0

\* ---------------------------------------------------------------- C4
\* C4: every grid cell is EMPTY or a colour index below NumColors, whatever
\* rows setLevelQueue was given.
C4_GridValuesValid ==
  \A y \in Rows, x \in Cols : grid[y][x] \in CellValues

\* ---------------------------------------------------------------- C5
\* C5: with a level of valid colours set on a fresh engine and rows then rising
\* on their own, a frame that inserts rows never leaves a cell of the bottom
\* row inside a run of three or more.
C5_InsertedRowUnmatched ==
  [][ started /\ rowsInserted' > rowsInserted
        => \A x \in Cols : ~InRun(grid', x, Height - 1) ]_vars

\* ---------------------------------------------------------------- C6
\* C6: whenever the phase is idle in a game still in play, the grid holds no
\* horizontal or vertical run of three or more equal non-empty cells.
C6_IdleGridHasNoRun == phase = "idle" /\ ~Terminal => ~HasRun(grid)

\* ---------------------------------------------------------------- C7
\* C7: the row the sanitiser returns never has three equal non-empty values
\* side by side, whatever the input row and the rows under it.
C7_NoHorizontalTriple ==
  started => \A x \in 0 .. (Width - 3) :
               ~ ( /\ levelQueue[2][x] >= 0
                   /\ levelQueue[2][x + 1] = levelQueue[2][x]
                   /\ levelQueue[2][x + 2] = levelQueue[2][x] )

\* ---------------------------------------------------------------- C8
\* C8: after a scan the mask is true at exactly the non-empty cells that lie in
\* a horizontal or vertical run of three or more equal values, and the scan
\* reports a match (the phase becomes clearing) exactly when some mask entry is
\* true.
C8_ScanMarksExactlyRuns ==
  started =>
    /\ \A y \in Rows, x \in Cols : matchMask[y][x] <=> InRun(grid, x, y)
    /\ (phase = "clearing") <=> (\E y \in Rows, x \in Cols : matchMask[y][x])

\* a scanned grid with a full top row marked, a column of exactly three marked
\* and cells left unmarked
C8_Witness ==
  /\ started
  /\ \A x \in Cols : matchMask[0][x]
  /\ matchMask[1][0] /\ matchMask[2][0] /\ ~matchMask[3][0]
  /\ ~matchMask[1][2] /\ grid[1][2] >= 0

\* ---------------------------------------------------------------- C9
\* C9: swap returns the engine as it was (no field changed, onSwap not invoked)
\* when the phase is not idle, or hasWon or hasLost is set, or both cells under
\* the cursor are empty.
C9_SwapNoOp ==
  (phase # "idle" \/ Terminal \/ BothCellsEmpty) => swap(Self) = Self

\* an idle game in play with both cells under the cursor empty and a swap left
C9_Witness ==
  /\ phase = "idle" /\ ~Terminal /\ BothCellsEmpty
  /\ grid # emptyGrid /\ swapCount < MaxSwaps

\* ---------------------------------------------------------------- C10
SwapAccepted == phase = "idle" /\ ~Terminal /\ ~BothCellsEmpty

\* C10 as stated: an accepted swap leaves the grid equal to the old grid with
\* the two cursor cells exchanged; the phase becomes clearing with chainCount
\* max(chainCount, 1) if that grid has a run, else settling if exactly one of
\* the two cells was empty, else it stays idle.
C10_GridIsExchangedGrid ==
  SwapAccepted =>
    LET t == swap(Self)
    IN  /\ t.grid = CursorExchange
        /\ IF HasRun(CursorExchange)
           THEN t.phase = "clearing" /\ t.chainCount = Max(chainCount, 1)
           ELSE IF OneCellEmpty THEN t.phase = "settling"
           ELSE t.phase = "idle"

\* C10, amended: an accepted swap exchanges the two cursor cells; when the
\* swap starts a settle, the cells that have to fall are taken out of the grid
\* as falling pieces, so the grid with those pieces put back where they left
\* equals the exchanged grid; in the clearing and idle outcomes the grid is the
\* exchanged grid itself. The phase and chainCount are as stated.
C10_SwapEffects ==
  SwapAccepted =>
    LET t == swap(Self)
    IN  /\ Overlay(t.grid, t.fallPieces) = CursorExchange
        /\ \A i \in 1 .. Len(t.fallPieces) :
             t.grid[t.fallPieces[i].fromY][t.fallPieces[i].x] = EMPTY
        /\ IF HasRun(CursorExchange)
           THEN /\ t.phase = "clearing" /\ t.chainCount = Max(chainCount, 1)
                /\ t.grid = CursorExchange
           ELSE IF OneCellEmpty THEN t.phase = "settling"
           ELSE t.phase = "idle" /\ t.grid = CursorExchange

\* a swap into a gap has just been accepted and a tile is falling
C10_Witness ==
  /\ fired = <<Hook("onSwap", 0)>>
  /\ phase = "settling" /\ fallPieces # << >>

\* ---------------------------------------------------------------- C11
\* C11: a swap call that is accepted (idle, game in play, not both cells
\* empty) invokes the onSwap hook exactly once, whether it ends in clearing,
\* settling or idle; a swap call that is a no-op does not invoke it; update
\* never invokes it.
C11_OnSwapOncePerAcceptedSwap ==
  /\ LET t == swap(Self)
     IN  IF SwapAccepted
         THEN t.fired = <<Hook("onSwap", 0)>>
         ELSE t.fired = << >>
  /\ \A dtMs \in Dts : onSwapCalls(update(Self, dtMs)) = 0

\* an accepted swap of two tiles of different colours that made no match and
\* left the phase idle has just notified the listener
C11_Witness ==
  /\ fired = <<Hook("onSwap", 0)>>
  /\ phase = "idle" /\ swapCount = 1
  /\ grid[cursorY][cursorX] >= 0 /\ grid[cursorY][cursorX + 1] >= 0

\* ---------------------------------------------------------------- C12
\* the cells the mask marks, and whether update(dt) applies the clear
MarkedCells == {c \in Rows \X Cols : matchMask[c[1]][c[2]]}
ClearsWithin(dtMs) == ~Terminal /\ phase = "clearing" /\ clearTimerMs - dtMs <= 0

\* the multiplier of the table: doubling from 1 at depth 1, 64 from depth 7 on
Multiplier(d) == IF d >= 7 THEN 64 ELSE Pow2(d - 1)

\* C12: a frame that clears tilesCleared > 0 tiles adds tilesCleared times the
\* multiplier of chainCount to score (1, 2, 4, 8, 16, 32 for depths 1 to 6 and
\* 64 for every depth from 7 on, depth 20 as depth 7); every other frame and
\* every swap leaves score as it is, so score never decreases.
C12_ScoreByChainMultiplier ==
  /\ \A dtMs \in Dts :
       LET t == update(Self, dtMs)
       IN  IF ClearsWithin(dtMs) /\ MarkedCells # {}
           THEN t.score = score + Cardinality(MarkedCells) * Multiplier(chainCount)
           ELSE t.score = score
  /\ swap(Self).score = score
  /\ chainMult(7) = 64 /\ chainMult(20) = chainMult(7)

\* a clear of one row at chain depth 20 has just been scored
C12_Witness ==
  /\ chainCount = 20 /\ phase = "settling"
  /\ fired = <<Hook("onMatch", 20)>> /\ score = 64 * Width

WholeLines(n) == CHOOSE q \in 0 .. n : q * Width <= n /\ n < (q + 1) * Width

RECURSIVE Doubled(_, _)
Doubled(v, n) == IF n <= 0 THEN v ELSE Doubled(v + v, n - 1)

\* the pause left once the frame has counted dtMs off it
PauseLeft(dtMs) == IF risePauseMs > dtMs THEN risePauseMs - dtMs ELSE 0

\* C15: a frame that clears tilesCleared > 0 tiles without winning adds
\* 1000 * 2^max(0, chainCount - 1) ms to the pause left after that frame's
\* countdown, and risePauseMaxMs becomes the resulting risePauseMs; a clear
\* that wins, a clear of no tiles and a frame without a clear add no pause.
C15_PauseAddedPerClear ==
  \A dtMs \in Dts :
    LET t == update(Self, dtMs)
    IN  IF ClearsWithin(dtMs) /\ MarkedCells # {} /\ ~t.hasWon
        THEN /\ t.risePauseMs = PauseLeft(dtMs)
                                  + Doubled(baseMs, Max(0, chainCount - 1))
             /\ t.risePauseMaxMs = t.risePauseMs
        ELSE /\ ~Terminal => t.risePauseMs = PauseLeft(dtMs)
             /\ t.risePauseMaxMs = risePauseMaxMs

\* a clear at depth 3, made in the second frame of 125 ms, has just added
\* 4000 ms to the 250 ms of pause left
C15_Witness ==
  /\ fired = <<Hook("onMatch", 3)>> /\ ~hasWon
  /\ risePauseMs = baseMs \div 2 - 2 * 125 + 4 * baseMs
  /\ risePauseMaxMs = risePauseMs

\* ---------------------------------------------------------------- C16
\* rising is active in a frame of dtMs: game in play, idle, scroll speed above
\* 0 and no pause left after the frame's countdown
Rising(dtMs) ==
  ~Terminal /\ phase = "idle" /\ scrollSpeedPxPerSec > 0 /\ PauseLeft(dtMs) <= 0

\* the scroll offset once the frame's movement is added
Scrolled(dtMs) == scrollOffsetPx + (scrollSpeedPxPerSec * dtMs) \div 1000

\* the whole cells in px pixels: the q with q * cellSize <= px < (q + 1) * cellSize
WholeCells(px) == CHOOSE q \in 0 .. px : q * cellSize <= px /\ px < (q + 1) * cellSize

\* the grid after k rows have risen into it: every row k places higher, the
\* bottom k rows from the front of the queue (empty rows past its end)
RisenGrid(k) ==
  [y \in Rows |->
     IF y + k <= Height - 1 THEN grid[y + k]
     ELSE LET i == y + k - (Height - 1)
          IN  IF i <= Len(levelQueue) THEN levelQueue[i] ELSE emptyRow]

\* C16: in a frame where rising is active and the game is not lost, one row is
\* inserted for every whole cell in scrollOffsetPx + scrollSpeedPxPerSec * dt
\* / 1000 (several in one frame when dt is long): rowsInserted grows by that
\* number, scrollOffsetPx ends at the remainder, the grid has risen by that
\* many rows and the queue is shorter by them. A frame where rising is not
\* active leaves the scroll offset and rowsInserted as they are.
C16_OneRowPerCellCrossed ==
  \A dtMs \in ScrollDts :
    LET t == update(Self, dtMs)
        k == WholeCells(Scrolled(dtMs))
    IN  /\ Rising(dtMs) /\ ~t.hasLost =>
             /\ t.rowsInserted = rowsInserted + k
             /\ t.scrollOffsetPx = Scrolled(dtMs) - k * cellSize
             /\ t.grid = RisenGrid(k)
             /\ Len(t.levelQueue) = Max(0, Len(levelQueue) - k)
        /\ ~Rising(dtMs) =>
             t.rowsInserted = rowsInserted /\ t.scrollOffsetPx = scrollOffsetPx

\* two queued rows are about to rise in one frame of 1000 ms without a loss
C16_Witness ==
  /\ Rising(1000) /\ Len(levelQueue) >= 2 /\ scrollOffsetPx > 0
  /\ WholeCells(Scrolled(1000)) = 2
  /\ ~update(Self, 1000).hasLost
  /\ update(Self, 1000).grid[Height - 2] # emptyRow

\* ---------------------------------------------------------------- C17
TopRowOccupied(g) == \E x \in Cols : g[0][x] >= 0

\* the insertions update(dtMs) makes before it attempts one with the top row
\* occupied; -1 when rising is not active or no attempt meets an occupied top row
RowsBeforeBlocked(dtMs) ==
  LET blocked == {j \in 0 .. (WholeCells(Scrolled(dtMs)) - 1) :
                    TopRowOccupied(RisenGrid(j))}
  IN  IF Rising(dtMs) /\ blocked # {}
      THEN CHOOSE j \in blocked : \A i \in blocked : j <= i
      ELSE -1

\* the queue with its first j rows taken
QueueAfter(j) == SubSeq(levelQueue, Min(j, Len(levelQueue)) + 1, Len(levelQueue))

\* C17: when a row insertion is attempted with an occupied cell in the top
\* row, the insertion is not made: the grid, the cursor, the queue and
\* rowsInserted are as the insertions before that attempt left them, and the
\* frame sets hasLost.
C17_BlockedInsertionAborts ==
  \A dtMs \in ScrollDts :
    LET t == update(Self, dtMs)
        j == RowsBeforeBlocked(dtMs)
    IN  j >= 0 =>
          /\ t.hasLost
          /\ t.grid = RisenGrid(j)
          /\ t.cursorX = cursorX /\ t.cursorY = Max(0, cursorY - j)
          /\ t.levelQueue = QueueAfter(j)
          /\ t.rowsInserted = rowsInserted + j

\* a frame of 2000 ms is about to insert two rows, the second one filling the
\* top row, and to be stopped at the third attempt
C17_Witness ==
  /\ RowsBeforeBlocked(2000) = 2 /\ levelQueue # << >> /\ cursorY > 0
  /\ update(Self, 2000).hasLost

\* ---------------------------------------------------------------- C18
\* an occupied cell whose top edge on screen (row * cell height - scroll
\* offset) is at or above the top of the board
TopEdgeCrossed ==
  \E y \in Rows, x \in Cols : grid[y][x] >= 0 /\ y * cellSize - scrollOffsetPx <= 0

\* C18: in every frame of a game in play, whatever the phase, the pause left
\* and the scroll speed, an occupied cell with its top edge at or above the
\* top of the board makes that frame set hasLost.
C18_TopEdgeLossEveryTick ==
  ~Terminal /\ TopEdgeCrossed => \A dtMs \in Dts : update(Self, dtMs).hasLost

PlacementCounts == VisibleCounts \cup {-1, 1, Height + 1}

\* the smallest of three numbers, by comparison
Least(a, b, c) == CHOOSE m \in {a, b, c} : m <= a /\ m <= b /\ m <= c

\* C20: setLevelQueue(rows, visibleCount) places p = min(max(0, visibleCount),
\* number of rows, height) sanitised rows from the front of the queue, the
\* first in the bottom grid row and each next one a row higher; every other
\* grid row is empty, whatever the grid held before; rowsInserted is p; the
\* queue keeps the other rows in their order, each one width cells long.
C20_SetLevelQueuePlacement ==
  \A rows \in Levels, visibleCount \in PlacementCounts :
    LET t == setLevelQueue(Self, rows, visibleCount)
        q == sanitizeQueue(rows, grid)
        p == Least(IF visibleCount > 0 THEN visibleCount ELSE 0, Len(rows), Height)
    IN  /\ Len(q) = Len(rows)
        /\ t.rowsInserted = p
        /\ \A y \in Rows :
             t.grid[y] = IF (Height - 1) - y < p THEN q[Height - y] ELSE emptyRow
        /\ Len(t.levelQueue) = Len(rows) - p
        /\ \A i \in 1 .. Len(t.levelQueue) :
             t.levelQueue[i] = q[p + i] /\ DOMAIN t.levelQueue[i] = Cols

\* two of three rows have been placed on a fresh engine: the first in the
\* bottom row, the second above it, the third left in the queue
C20_Witness ==
  /\ rowsInserted = 2 /\ Len(levelQueue) = 1 /\ scrollOffsetPx = 0 /\ ~Terminal
  /\ grid[Height - 1] # emptyRow /\ grid[Height - 2] # emptyRow
  /\ grid[Height - 1] # grid[Height - 2]
  /\ grid[Height - 3] = emptyRow

\* ---------------------------------------------------------------- C21
\* C21: the frame that applies a clear sets hasWon exactly when linesClearedEq,
\* with the lines of this clear counted, has reached targetLines and some
\* cleared cell lies in row clearLineY or a row below it; a clear that leaves
\* linesClearedEq short of targetLines, or that clears only cells above
\* clearLineY, does not set hasWon, and neither does a clearing frame that
\* only counts the timer down.
C21_TargetLinesWin ==
  \A dtMs \in Dts :
    LET t == update(Self, dtMs)
    IN  /\ ClearsWithin(dtMs) =>
             ( t.hasWon <=>
                 /\ linesClearedEq + WholeLines(Cardinality(MarkedCells)) >= targetLines
                 /\ \E c \in MarkedCells : c[1] >= Height \div 2 )
        /\ ~Terminal /\ phase = "clearing" /\ ~ClearsWithin(dtMs) => ~t.hasWon

\* a clear of row clearLineY alone has just reached the target and won
C21_Witness ==
  /\ hasWon /\ phase = "clearing" /\ linesClearedEq = targetLines
  /\ \A c \in MarkedCells : c[1] = Height \div 2
  /\ grid[Height \div 2] = emptyRow /\ grid[Height - 1] # emptyRow

\* ---------------------------------------------------------------- C22
\* the frame of dtMs ends a settle without a cascade
SettleEnds(dtMs) ==
  ~Terminal /\ phase = "settling" /\ update(Self, dtMs).phase = "idle"

\* the win line on screen for grid g: the bottom of the board, lowered by a
\* cell height for every level line not yet inserted, less the scroll offset
WinLineScreenY == Height * cellSize + (totalLevelLines - rowsInserted) * cellSize
                  - scrollOffsetPx

\* an occupied cell of g with its bottom edge at or above the win line
CellAboveWinLine(g) ==
  \E y \in Rows, x \in Cols :
    g[y][x] >= 0 /\ (y + 1) * cellSize - scrollOffsetPx <= WinLineScreenY

\* C22: the frame that ends a settle without a cascade sets hasWon (and
\* invokes onWin) exactly when rowsInserted >= totalLevelLines and no
\* occupied cell has its bottom edge at or above the win line; no other frame
\* and no swap invokes onWin, and apart from the frame that applies a clear
\* none of them sets hasWon.
C22_RisingWinLineWin ==
  /\ \A dtMs \in Dts :
       LET t == update(Self, dtMs)
           won == <<Hook("onWin", 0)>>
       IN  IF SettleEnds(dtMs)
           THEN /\ t.hasWon <=> ( /\ rowsInserted >= totalLevelLines
                                  /\ ~CellAboveWinLine(t.grid) )
                /\ t.fired = IF t.hasWon THEN won ELSE << >>
           ELSE /\ \A i \in 1 .. Len(t.fired) : t.fired[i].hook # "onWin"
                /\ ~ClearsWithin(dtMs) => t.hasWon = hasWon
  /\ swap(Self).hasWon = hasWon

\* a settle has just ended with tiles left below the win line, and won
C22_Witness ==
  /\ hasWon /\ fired = <<Hook("onWin", 0)>> /\ phase = "idle"
  /\ grid # emptyGrid

\* ---------------------------------------------------------------- C23
\* the bottom k rows of the grid hold colours in every cell and the rows above
\* them are empty
BottomRowsFilled(k) ==
  \A y \in Rows, x \in Cols :
    IF y >= Height - k THEN grid[y][x] \in Colors ELSE grid[y][x] = EMPTY

\* C23: after setStartingLines on an empty grid, whatever colours the random
\* choices gave, some number of bottom rows is filled with valid colours, the
\* rows above are untouched, and the grid has no horizontal or vertical run
\* of three or more equal cells.
C23_StartingFillLegal ==
  /\ \E k \in 0 .. Height : BottomRowsFilled(k)
  /\ ~HasRun(grid)

\* ---------------------------------------------------------------- C24
\* the positions of levelIds that hold currentId
Positions == {i \in 1 .. Len(levelIds) : levelIds[i] = currentId}

\* C24: getNextLevelId returns the id of the level after the (first) level
\* with the current id, the first level's id after the last level, the first
\* level's id when no level has the current id, and the empty string when the
\* list is empty.
C24_NextLevelWraps ==
  LET r == getNextLevelId(levelIds, currentId)
  IN  /\ levelIds = << >> => r = ""
      /\ levelIds # << >> /\ Positions = {} => r = levelIds[1]
      /\ Positions # {} =>
           LET i == CHOOSE j \in Positions : \A k \in Positions : j <= k
           IN  r = IF i = Len(levelIds) THEN levelIds[1] ELSE levelIds[i + 1]
      /\ nextId # "" => nextId = r

\* the host asked for the level after the last of three different levels and
\* got the first
C24_Witness ==
  /\ levelIds = <<"level-1", "level-2", "level-3">>
  /\ currentId = "level-3" /\ nextId = "level-1"

\* ---------------------------------------------------------------- C25
\* the X key going down: the handler raises the scroll speed to two cells a
\* second (a repeated key-down while the key is held changes nothing)
KeyDownX == SetScrollSpeed(2 * cellSize)

\* C25: a press of the X key with the engine idle and the game in play
\* inserts exactly one row at the bottom.
C25_XPressRaisesOneRow ==
  [][ KeyDownX /\ phase = "idle" /\ ~Terminal
        => rowsInserted' = rowsInserted + 1 ]_vars

\* ---------------------------------------------------------------- C26
\* the phase changes a swap may make, and those a frame may make
SwapPhaseChanges == {<<"idle", "clearing">>, <<"idle", "settling">>}
UpdatePhaseChanges ==
  {<<"clearing", "settling">>, <<"settling", "clearing">>, <<"settling", "idle">>}

\* C26: a swap changes the phase only from idle to clearing or to settling; a
\* frame changes it only from clearing to settling, from settling to clearing
\* or from settling to idle, never from clearing to idle, and makes one change
\* at most (a frame that leaves the phase at clearing has applied no clear and
\* one that leaves it at settling has made no scan and no clear); cursor
\* moves leave the phase as it is.
C26_PhaseChanges ==
  /\ phase \in {"idle", "clearing", "settling"}
  /\ swap(Self).phase = phase \/ <<phase, swap(Self).phase>> \in SwapPhaseChanges
  /\ \A dtMs \in Dts :
       LET t == update(Self, dtMs)
       IN  /\ t.phase = phase \/ <<phase, t.phase>> \in UpdatePhaseChanges
           /\ t.phase = phase /\ phase # "idle" =>
                /\ t.matchMask = matchMask /\ t.chainCount = chainCount
                /\ t.hasWon \/ (t.grid = grid /\ t.matchesTotal = matchesTotal)
  /\ \A d \in MoveDeltas : moveCursor(Self, d[1], d[2]).phase = phase
  /\ \A c \in PointerCells : setCursorAbsolute(Self, c[1], c[2]).phase = phase

\* a settle has just ended in a cascade: the second clearing phase of a chain
C26_Witness ==
  /\ phase = "clearing" /\ chainCount = 2 /\ clearTimerMs = CascadeClearMs
  /\ matchesTotal = 1 /\ fired = << >>

\* ---------------------------------------------------------------- C27
\* the grid with every masked cell emptied
ClearedGrid ==
  [y \in Rows |-> [x \in Cols |-> IF matchMask[y][x] THEN EMPTY ELSE grid[y][x]]]

\* a clearing frame that only counts the timer down
CountsDown(t, dtMs) ==
  /\ t.phase = "clearing" /\ t.clearTimerMs = clearTimerMs - dtMs
  /\ t.grid = grid /\ t.score = score /\ t.matchMask = matchMask
  /\ t.matchesTotal = matchesTotal /\ t.linesClearedEq = linesClearedEq
  /\ t.chainCount = chainCount /\ t.rowsInserted = rowsInserted
  /\ t.fired = << >> /\ ~t.hasWon

\* a clearing frame that applies the clear: the masked cells emptied (the
\* tiles left hanging taken out as falling pieces) and the clear scored
ClearApplied(t) ==
  /\ \A c \in MarkedCells : t.grid[c[1]][c[2]] = EMPTY
  /\ Overlay(t.grid, t.fallPieces) = ClearedGrid
  /\ t.score = score + Cardinality(MarkedCells) * Multiplier(chainCount)
  /\ MarkedCells # {} => t.matchesTotal = matchesTotal + 1

\* the clear window runs from 230 ms after a swap and from 200 ms after a
\* settle, and a clearing phase in play has part of it left
ClearWindows ==
  /\ phase = "clearing" /\ ~Terminal => clearTimerMs > 0 /\ clearTimerMs <= SwapClearMs
  /\ phase = "idle" /\ swap(Self).phase = "clearing" =>
       swap(Self).clearTimerMs = SwapClearMs
  /\ \A dtMs \in Dts :
       phase = "settling" /\ update(Self, dtMs).phase = "clearing" =>
         update(Self, dtMs).clearTimerMs = CascadeClearMs

\* C27 as stated: in the clearing phase the grid, the score and the counters
\* stay as they are until the frames since the phase began add up to the
\* clear window (230 ms after a swap, 200 ms after a settle); the first frame
\* that reaches it empties all masked cells, applies the scoring and makes
\* the phase settling.
C27_ClearEndsInSettling ==
  /\ ClearWindows
  /\ \A dtMs \in Dts :
       LET t == update(Self, dtMs)
       IN  phase = "clearing" /\ ~Terminal =>
             IF clearTimerMs - dtMs > 0 THEN CountsDown(t, dtMs)
             ELSE ClearApplied(t) /\ t.phase = "settling"

\* C27, amended: as stated, except that a clear that wins the game by the
\* target-lines rule leaves the phase at clearing with hasWon set; every
\* other clear makes the phase settling in that same frame.
C27_ClearAtWindow ==
  /\ ClearWindows
  /\ \A dtMs \in Dts :
       LET t == update(Self, dtMs)
       IN  phase = "clearing" /\ ~Terminal =>
             IF clearTimerMs - dtMs > 0 THEN CountsDown(t, dtMs)
             ELSE /\ ClearApplied(t)
                  /\ t.phase = (IF t.hasWon THEN "clearing" ELSE "settling")

\* the clear of a swap has just been applied in the second frame of 125 ms,
\* 250 ms into a window of 230 ms, and the tiles above it are falling
C27_Witness ==
  /\ phase = "settling" /\ fired = <<Hook("onMatch", 1)>> /\ ~hasWon
  /\ clearTimerMs = SwapClearMs - 2 * 125 /\ fallPieces # << >>

\* ---------------------------------------------------------------- C28
\* C28: a frame changes scrollOffsetPx, rowsInserted or the level queue only
\* when the game is in play, the phase is idle, scrollSpeedPxPerSec > 0 and no
\* pause is left once the frame's countdown has run; the countdown runs in
\* every phase, before the gate, so the frame in which the pause runs out
\* already moves the stack by scrollSpeedPxPerSec * dt / 1000. Every other
\* frame leaves scrollOffsetPx, rowsInserted and the level queue as they are,
\* and an idle one leaves the grid and the cursor too.
C28_RiseGate ==
  \A dtMs \in Dts :
    LET t == update(Self, dtMs)
    IN  /\ ~Terminal /\ ~(ClearsWithin(dtMs) /\ MarkedCells # {}) =>
             t.risePauseMs = PauseLeft(dtMs)
        /\ ( \/ t.scrollOffsetPx # scrollOffsetPx
             \/ t.rowsInserted # rowsInserted
             \/ t.levelQueue # levelQueue ) => Rising(dtMs)
        /\ Rising(dtMs) /\ ~t.hasLost =>
             t.scrollOffsetPx + cellSize * (t.rowsInserted - rowsInserted)
               = Scrolled(dtMs)
        /\ ~Rising(dtMs) =>
             /\ t.scrollOffsetPx = scrollOffsetPx
             /\ t.rowsInserted = rowsInserted
             /\ t.levelQueue = levelQueue
             /\ phase = "idle" =>
                  t.grid = grid /\ t.cursorY = cursorY /\ t.hasLost = hasLost

\* a pause of less than 2000 ms is left in the idle phase after a clear, and
\* the frame of 2000 ms that ends it inserts a row
C28_Witness ==
  /\ phase = "idle" /\ ~Terminal /\ matchesTotal > 0
  /\ risePauseMs > 0 /\ risePauseMs < 2000
  /\ update(Self, 2000).rowsInserted > rowsInserted

\* ---------------------------------------------------------------- C29
\* C29: after every frame, a frame that ends in a loss included,
\* 0 <= scrollOffsetPx < cellSize.
C29_ScrollOffsetWithinCell ==
  \A dtMs \in ScrollDts :
    LET t == update(Self, dtMs)
    IN  0 <= t.scrollOffsetPx /\ t.scrollOffsetPx < cellSize

\* ---------------------------------------------------------------- C30
\* the two cells under a cursor at (x, y) of grid g
UnderCursor(g, x, y) == <<g[y][x], g[y][x + 1]>>

\* C30: a row insertion that is made (top row empty) puts every grid row one
\* row higher, lowers cursorY by exactly 1, or leaves it at 0, and leaves
\* cursorX as it is, so a cursor that was below row 0 is on the same two
\* tiles afterwards and a cursor on row 0 is on the tiles that were below it;
\* a frame that inserts k rows without a loss lowers cursorY by k, down to 0.
C30_InsertionCarriesCursor ==
  /\ LET r == insertRowFromBottomFromQueue(Self)
     IN  ~r.lost =>
           /\ \A y \in 0 .. (Height - 2) : r.s.grid[y] = grid[y + 1]
           /\ r.s.grid[Height - 1] = nextRowPreview(Self)
           /\ r.s.cursorX = cursorX
           /\ r.s.cursorY = (IF cursorY >= 1 THEN cursorY - 1 ELSE 0)
           /\ cursorY >= 1 =>
                UnderCursor(r.s.grid, r.s.cursorX, r.s.cursorY)
                  = UnderCursor(grid, cursorX, cursorY)
           /\ cursorY = 0 =>
                UnderCursor(r.s.grid, r.s.cursorX, r.s.cursorY)
                  = UnderCursor(grid, cursorX, 1)
  /\ \A dtMs \in Dts :
       LET t == update(Self, dtMs)
           k == t.rowsInserted - rowsInserted
       IN  ~t.hasLost =>
             /\ t.cursorX = cursorX
             /\ t.cursorY = (IF cursorY >= k THEN cursorY - k ELSE 0)
             /\ phase = "idle" /\ cursorY >= k =>
                  UnderCursor(t.grid, t.cursorX, t.cursorY)
                    = UnderCursor(grid, cursorX, cursorY)

\* the cursor is on two tiles below row 0 and a frame of 125 ms is about to
\* insert one queued row under them without a loss
C30_Witness ==
  /\ Rising(125) /\ WholeCells(Scrolled(125)) = 1 /\ levelQueue # << >>
  /\ cursorY >= 1 /\ grid[cursorY][cursorX] >= 0 /\ grid[cursorY][cursorX + 1] >= 0
  /\ update(Self, 125).rowsInserted = rowsInserted + 1
  /\ ~update(Self, 125).hasLost

\* ---------------------------------------------------------------- C31
\* the i-th row the insertions made from this state write: the i-th row of
\* the queue, an entirely empty row past its end
QueuedRow(i) == IF i <= Len(levelQueue) THEN levelQueue[i] ELSE emptyRow

\* C31: the queue is consumed first in, first out. An insertion that is made
\* writes the front row of the queue into the bottom row and leaves the rest
\* of the queue in order, one row shorter; with the queue empty it writes an
\* entirely empty row and the queue stays empty. So a frame that makes k
\* insertions, whether or not it then loses, has written the first k rows of
\* the queue in order (empty rows past its end) and taken exactly those rows
\* off the front, and a frame, a swap or a cursor move that inserts nothing
\* leaves the queue as it is.
C31_QueueIsFifo ==
  /\ LET r == insertRowFromBottomFromQueue(Self)
     IN  ~r.lost =>
           /\ r.s.grid[Height - 1] = QueuedRow(1)
           /\ r.s.levelQueue = QueueAfter(1)
           /\ Len(r.s.levelQueue) = (IF levelQueue # << >> THEN Len(levelQueue) - 1 ELSE 0)
  /\ \A dtMs \in ScrollDts :
       LET t == update(Self, dtMs)
           k == t.rowsInserted - rowsInserted
       IN  /\ k >= 0
           /\ \A i \in 1 .. k :
                k - i <= Height - 1 => t.grid[Height - 1 - (k - i)] = QueuedRow(i)
           /\ t.levelQueue = QueueAfter(k)
           /\ Len(t.levelQueue) = Max(0, Len(levelQueue) - k)
  /\ swap(Self).levelQueue = levelQueue
  /\ \A d \in MoveDeltas : moveCursor(Self, d[1], d[2]).levelQueue = levelQueue

\* a frame of 1000 ms is about to insert the only row left in the queue and,
\* the queue then being empty, an entirely empty row under it
C31_Witness ==
  /\ Len(levelQueue) = 1 /\ levelQueue[1] # emptyRow /\ rowsInserted > 0
  /\ update(Self, 1000).rowsInserted = rowsInserted + 2
  /\ update(Self, 1000).grid[Height - 1] = emptyRow

\* ---------------------------------------------------------------- C32
\* the row the tile at (x, y) of g comes to rest in: the bottom row, less the
\* tiles of its column below it
FinalRow(g, x, y) ==
  Height - 1 - Cardinality({y2 \in Rows : y2 > y /\ g[y2][x] >= 0})

\* g with every column compacted to the bottom, its tiles in the same order
Compacted(g) ==
  [y \in Rows |-> [x \in Cols |->
     IF \E y0 \in Rows : g[y0][x] >= 0 /\ FinalRow(g, x, y0) = y
     THEN g[CHOOSE y0 \in Rows : g[y0][x] >= 0 /\ FinalRow(g, x, y0) = y][x]
     ELSE EMPTY]]

\* the cells of g whose tile has to move to come to rest
MovingCells(g) ==
  {c \in Rows \X Cols : g[c[1]][c[2]] >= 0 /\ FinalRow(g, c[2], c[1]) # c[1]}

\* the grid as it was when the settle began: the falling pieces put back
SettleStart == Overlay(grid, fallPieces)

\* C32: while settling, the falling pieces are exactly the tiles of the grid
\* the settle began with whose final row differs from their row, one piece
\* each, bound for that row, and the other tiles are in the grid where they
\* were; the frame in which the last piece lands leaves every column with
\* the tiles it held when the settle began, in the same order from top to
\* bottom, with no empty cell below an occupied one. The final row of a tile
\* counts the tiles of its own column only, so no column depends on another.
C32_SettleCompactsColumns ==
  /\ phase = "settling" =>
       /\ {<<fallPieces[i].fromY, fallPieces[i].x>> : i \in 1 .. Len(fallPieces)}
            = MovingCells(SettleStart)
       /\ Len(fallPieces) = Cardinality(MovingCells(SettleStart))
       /\ \A i \in 1 .. Len(fallPieces) :
            LET p == fallPieces[i]
            IN  /\ p.toY = FinalRow(SettleStart, p.x, p.fromY)
                /\ p.color = SettleStart[p.fromY][p.x]
                /\ grid[p.fromY][p.x] = EMPTY
       /\ \A c \in (Rows \X Cols) \ MovingCells(SettleStart) :
            grid[c[1]][c[2]] = SettleStart[c[1]][c[2]]
  /\ \A dtMs \in Dts :
       LET t == update(Self, dtMs)
       IN  phase = "settling" =>
             IF t.phase = "settling"
             THEN t.grid = grid /\ Overlay(t.grid, t.fallPieces) = SettleStart
             ELSE /\ t.grid = Compacted(SettleStart)
                  /\ t.fallPieces = << >>
                  /\ \A y \in 0 .. (Height - 2), x \in Cols :
                       t.grid[y][x] >= 0 => t.grid[y + 1][x] >= 0

\* two tiles of one column, one above the other, are falling while another
\* column keeps a tile where it was
C32_Witness ==
  /\ phase = "settling" /\ ~Terminal
  /\ \E i, j \in 1 .. Len(fallPieces) :
       /\ fallPieces[i].x = fallPieces[j].x
       /\ fallPieces[i].fromY < fallPieces[j].fromY
       /\ \E c \in Rows \X Cols : c[2] # fallPieces[i].x /\ grid[c[1]][c[2]] >= 0

\* ---------------------------------------------------------------- C33
\* C33: in every reachable state, an idle phase has chainCount 0 and no
\* falling piece, and a clearing phase has chainCount at least 1 and at least
\* one cell marked in the match mask.
C33_PhaseShape ==
  /\ phase = "idle" => chainCount = 0 /\ fallPieces = << >>
  /\ phase = "clearing" => chainCount >= 1 /\ \E y \in Rows, x \in Cols : matchMask[y][x]

\* a chain of two clears has ended and the phase is idle again
C33_Witness ==
  /\ phase = "idle" /\ matchesTotal = 2 /\ swapCount = 1
  /\ matchMask = blankMask /\ fallPieces = << >>

\* ---------------------------------------------------------------- C34
\* C34: with three colours, whatever the input row and the two bottom rows of
\* the context, the sanitised row completes no vertical triple: in no column
\* are the two context cells equal, non-empty and equal to the sanitised
\* value; and the sanitised row is empty exactly where the input row is, a
\* tile staying a tile of one of the colours.
C34_SanitizedRowNoVerticalTriple ==
  started =>
    \A x \in Cols :
      /\ ~ ( /\ grid[Height - 1][x] >= 0
             /\ grid[Height - 2][x] = grid[Height - 1][x]
             /\ levelQueue[2][x] = grid[Height - 1][x] )
      /\ levelQueue[1][x] = EMPTY => levelQueue[2][x] = EMPTY
      /\ levelQueue[1][x] \in Colors => levelQueue[2][x] \in Colors

\* a row has been sanitised whose first cell would have completed a vertical
\* triple and whose second cell was empty
C34_Witness ==
  /\ started /\ Len(levelQueue) = 2 /\ NumColors >= 3
  /\ levelQueue[1][0] >= 0 /\ levelQueue[1][1] = EMPTY
  /\ grid[Height - 1][0] = levelQueue[1][0] /\ grid[Height - 2][0] = levelQueue[1][0]
  /\ levelQueue[2][0] # levelQueue[1][0]

\* ---------------------------------------------------------------- C35
\* C35: whenever the win line has risen into view (rowsInserted >=
\* totalLevelLines, the states in which the settle-time win check is made),
\* the win-line position that check computes equals getState().winLineY, and
\* the cell height it measures the cells with is the cell height of the
\* scroll and loss checks.
C35_WinCheckMatchesSnapshot ==
  rowsInserted >= totalLevelLines =>
    /\ winLineScreenYAt(Self) = winLineY(Self)
    /\ WinCheckCellPx = cellSize

\* ---------------------------------------------------------------- C36
\* C36: while the game is paused (from the step after P pauses it to the step
\* before P resumes it), whatever keys and frames come, no row is inserted,
\* scrollOffsetPx does not advance and no swap is made.
C36_PauseStopsRising ==
  [][ paused /\ paused' =>
        /\ rowsInserted' = rowsInserted
        /\ scrollOffsetPx' = scrollOffsetPx
        /\ swapCount' = swapCount ]_vars

\* ---------------------------------------------------------------- C37
\* the tiles on the board: those in the grid and those falling
TileCount(g, pieces) ==
  Cardinality({c \in Rows \X Cols : g[c[1]][c[2]] >= 0}) + Len(pieces)

\* every clear takes at least three tiles off the board and no other frame of
\* a chain changes their number, so the clears of a chain number at most a
\* third of the tiles it began with
ClearsTakeThreeTiles ==
  /\ 3 * matchesTotal + TileCount(grid, fallPieces) <= Width * Height
  /\ \A dtMs \in Dts :
       LET t == update(Self, dtMs)
       IN  phase # "idle" =>
             IF t.matchesTotal # matchesTotal
             THEN /\ t.matchesTotal = matchesTotal + 1
                  /\ TileCount(t.grid, t.fallPieces) + 3 <= TileCount(grid, fallPieces)
             ELSE TileCount(t.grid, t.fallPieces) = TileCount(grid, fallPieces)

\* C37: every chain ends. With frames of dt > 0 going on and nothing else
\* called, a clearing or settling phase leads to the idle phase or to hasWon,
\* and the chain makes at most (tiles on the board) / 3 clears.
C37_ChainTerminates ==
  /\ []ClearsTakeThreeTiles
  /\ (phase \in {"clearing", "settling"}) ~> (phase = "idle" \/ hasWon)

\* a chain has come to its end without a win, tiles left on the board
C37_Witness ==
  /\ phase = "idle" /\ ~hasWon /\ matchesTotal = 1 /\ chainCount = 0
  /\ TileCount(grid, fallPieces) > 0 /\ clearTimerMs < 0

\* ------------------------------------------------------------------------
onWinCalls(s) == Cardinality({i \in 1 .. Len(s.fired) : s.fired[i].hook = "onWin"})

\* C38: whenever hasWon goes from false to true, by either win policy, the
\* onWin hook is invoked exactly once in that same update, and it is never
\* invoked otherwise (no update that leaves hasWon as it was, and no swap,
\* invokes it).
C38_WinInvokesOnWinOnce ==
  /\ \A dtMs \in Dts :
       LET t == update(Self, dtMs)
       IN  onWinCalls(t) = IF ~hasWon /\ t.hasWon THEN 1 ELSE 0
  /\ onWinCalls(swap(Self)) = 0
  /\ swap(Self).hasWon = hasWon

\* ------------------------------------------------------------------------
\* the tiles of value v in the grid and among the falling pieces
ValueCount(g, pieces, v) ==
  Cardinality({c \in Rows \X Cols : g[c[1]][c[2]] = v})
    + Cardinality({i \in 1 .. Len(pieces) : pieces[i].color = v})

\* the tiles of value v in the first k rows of the queue
QueuedCount(k, v) ==
  Cardinality({c \in (1 .. k) \X Cols : QueuedRow(c[1])[c[2]] = v})

\* C39: tiles are conserved. A row insertion shifts out an empty top row and
\* moves every other row up by one; swap and settling keep the number of
\* tiles of every value, counted over the grid and the falling pieces; a
\* rising frame adds the tiles of the rows it inserts; and the tile count
\* goes down only in the frame that applies a clear, by tilesCleared, the
\* matched cells.
C39_TilesConserved ==
  /\ LET r == insertRowFromBottomFromQueue(Self)
     IN  ~r.lost => /\ grid[0] = emptyRow
                    /\ \A y \in 1 .. (Height - 1) : r.s.grid[y - 1] = grid[y]
                    /\ r.s.grid[Height - 1] = QueuedRow(1)
  /\ \A v \in Colors :
       ValueCount(swap(Self).grid, swap(Self).fallPieces, v)
         = ValueCount(grid, fallPieces, v)
  /\ phase = "clearing" /\ ~Terminal =>
       /\ \A c \in MarkedCells : grid[c[1]][c[2]] >= 0
       /\ applyClearAndCount(Self).tilesCleared = Cardinality(MarkedCells)
  /\ \A dtMs \in Dts :
       LET t == update(Self, dtMs)
           clears == phase = "clearing" /\ ~Terminal /\ clearTimerMs - dtMs <= 0
       IN  /\ \A v \in Colors :
                ValueCount(t.grid, t.fallPieces, v)
                  = IF clears
                    THEN ValueCount(grid, fallPieces, v)
                           - Cardinality({c \in MarkedCells : grid[c[1]][c[2]] = v})
                    ELSE ValueCount(grid, fallPieces, v)
                           + QueuedCount(t.rowsInserted - rowsInserted, v)
           /\ TileCount(t.grid, t.fallPieces)
                = IF clears
                  THEN TileCount(grid, fallPieces) - Cardinality(MarkedCells)
                  ELSE TileCount(grid, fallPieces)
                         + Cardinality({c \in (1 .. (t.rowsInserted - rowsInserted)) \X Cols :
                                          QueuedRow(c[1])[c[2]] >= 0})
           /\ t.rowsInserted > rowsInserted => phase = "idle" /\ ~clears

\* a clear has been applied and the tiles left hanging are falling, rows
\* having been inserted before
C39_Witness ==
  /\ phase = "settling" /\ Len(fallPieces) >= 2 /\ matchesTotal = 1
  /\ rowsInserted > 0 /\ TileCount(grid, fallPieces) >= 3

\* ------------------------------------------------------------------------
\* C40: hasLost becomes true only in an update where rising is active (phase
\* idle, no rise pause left, scroll speed above 0) and the top row holds an
\* occupied cell, either at an attempted insertion or once the frame's rows
\* have risen; and every update with active rising that meets an occupied
\* top row at either point sets hasLost, so none returns with a tile in row 0
\* and hasLost false. A swap never changes hasLost.
C40_LossOnlyAtOccupiedTopRow ==
  /\ swap(Self).hasLost = hasLost
  /\ \A dtMs \in ScrollDts :
       LET t == update(Self, dtMs)
           j == RowsBeforeBlocked(dtMs)
           k == WholeCells(Scrolled(dtMs))
       IN  /\ ~hasLost /\ t.hasLost =>
                /\ Rising(dtMs)
                /\ TopRowOccupied(t.grid)
                /\ IF j >= 0 THEN t.grid = RisenGrid(j)
                   ELSE t.grid = RisenGrid(k)
           /\ Rising(dtMs) /\ (j >= 0 \/ TopRowOccupied(RisenGrid(k))) => t.hasLost
           /\ Rising(dtMs) /\ TopRowOccupied(t.grid) => t.hasLost

\* a game lost by the top-edge test once a row had risen into the top row,
\* part of a cell scrolled
C40_Witness ==
  /\ hasLost /\ TopRowOccupied(grid) /\ rowsInserted > Height
  /\ scrollOffsetPx > 0 /\ scrollOffsetPx < cellSize
====
